---- MODULE Spec2Model ----
(***************************************************************************)
(* A model of the HeroForge STL exporter (src/src/lib/exporter.ts): the    *)
(* scene walk, the triangle assembler, the binary STL encoder, the         *)
(* store-only ZIP writer and the top-level exportCharacter call.           *)
(*                                                                         *)
(* Representation                                                          *)
(*  - a string is the sequence of its UTF-16 code units (numbers);         *)
(*  - a byte buffer is a sequence of numbers 0..255, buffer offset p being *)
(*    element p + 1;                                                       *)
(*  - a 32-bit word that may exceed 2^31 (a CRC) is the tuple of its four  *)
(*    bytes, least significant first;                                      *)
(*  - a coordinate is a fixed-point number counted in halves (the value    *)
(*    2.5 is the number 5), so that the ground clearance is exact.         *)
(***************************************************************************)
EXTENDS Integers, Sequences, FiniteSets, TLC

VARIABLES
    zipFiles,      \* SimpleZip.files of the archive under construction
    zipResult,     \* the buffer the last generate() returned, or NoBuffer
    stlTriangles,  \* trianglesToSTL: the triangle list passed in
    stlHeaderText, \* trianglesToSTL: the header label passed in
    stlBuffer,     \* trianglesToSTL: the buffer returned, or NoBuffer
    CK,            \* the host's globals: the display's meshes and the scene
    console,       \* what was reported: console.error and console.warn
    vertexHeap,    \* the Vertex objects that triangles refer to
    triPc,         \* collectTriangles: where the call is
    triMeshes,     \* collectTriangles: the meshes passed in (references)
    triScale,      \* the scale passed to transformTriangles
    triMeshIdx,    \* collectTriangles: meshes done
    triGeom,       \* collectTriangles: positions and indices of the mesh
    triI,          \* collectTriangles: the loop variable i
    allTriangles,  \* collectTriangles: allTriangles
    skippedTriangles, \* collectTriangles: skippedTriangles
    exPc,          \* exportCharacter: where the call is
    options,       \* exportCharacter: filename, scale, separateBase
    characterMeshes, \* exportCharacter: characterMeshes (references)
    baseMeshes,    \* exportCharacter: baseMeshes (references)
    charTriangles, \* exportCharacter: charTriangles
    baseTriangles, \* exportCharacter: baseTriangles
    mergedTriangles, \* exportCharacter: triangles of the single-file branch
    downloads,     \* the calls of downloadFile: buffer and filename
    boneSkeleton,  \* getBoneMatrix: the skeleton passed in
    boneCall,      \* getBoneMatrix: the last call, index and result
    weightCall,    \* decodeWeight: the last call, argument and result
    resMesh,       \* extractMeshGeometry: the mesh passed in
    resPc,         \* extractMeshGeometry: where the call is
    resBone,       \* extractMeshGeometry: bones visited by the loop over bones
    resI,          \* extractMeshGeometry: the loop variable i
    resPositions,  \* extractMeshGeometry: positions
    resPath        \* extractMeshGeometry: the branch that resolved each vertex

zipVars == <<zipFiles, zipResult>>

stlVars == <<stlTriangles, stlHeaderText, stlBuffer>>

hostVars == <<CK, console>>

triVars == <<vertexHeap, triPc, triMeshes, triScale, triMeshIdx, triGeom, triI,
             allTriangles, skippedTriangles>>

exVars == <<exPc, options, characterMeshes, baseMeshes, charTriangles, baseTriangles,
            mergedTriangles, downloads>>

boneVars == <<boneSkeleton, boneCall>>

weightVars == <<weightCall>>

resVars == <<resMesh, resPc, resBone, resI, resPositions, resPath>>

vars == <<zipFiles, zipResult, stlTriangles, stlHeaderText, stlBuffer, CK, console,
          vertexHeap, triPc, triMeshes, triScale, triMeshIdx, triGeom, triI,
          allTriangles, skippedTriangles, exPc, options, characterMeshes, baseMeshes,
          charTriangles, baseTriangles, mergedTriangles, downloads, boneSkeleton,
          boneCall, weightCall, resMesh, resPc, resBone, resI, resPositions, resPath>>

(***************************************************************************)
(* Generic helpers                                                         *)
(***************************************************************************)
NoBuffer == <<-1>>

Abs(n) == IF n < 0 THEN -n ELSE n

RECURSIVE Concat(_)
Concat(seqs) == IF seqs = <<>> THEN <<>> ELSE Head(seqs) \o Concat(Tail(seqs))

RECURSIVE SumSeq(_)
SumSeq(s) == IF s = <<>> THEN 0 ELSE Head(s) + SumSeq(Tail(s))

(***************************************************************************)
(* Optional values, numbers and the host's vectors and matrices            *)
(***************************************************************************)
\* An optional value (undefined, null or a value) is <<>> or <<value>>.
None == <<>>

Some(x) == <<x>>

IsSome(o) == o # <<>>

\* The number read past the end of an array (undefined, NaN in arithmetic).
Undefined == -1000000000

IsNumber(c) == c # Undefined

\* A whole number as a fixed-point number.
ToFixed(n) == 2 * n

\* JavaScript's n % m: the remainder has the sign of n.
JsRem(n, m) == IF n >= 0 THEN n % m ELSE -((-n) % m)

\* A Matrix4 is the tuple of its 16 elements, column by column.  The
\* matrices of the model are affine (bottom row 0 0 0 1); their linear part
\* is in whole numbers and their translation in fixed-point numbers.
IdentityMatrix == <<1, 0, 0, 0,  0, 1, 0, 0,  0, 0, 1, 0,  0, 0, 0, 1>>

TranslationMatrix(x, y, z) == <<1, 0, 0, 0,  0, 1, 0, 0,  0, 0, 1, 0,  x, y, z, 1>>

\* Matrix4.multiply: a := a x b.
MatrixMultiply(a, b) ==
    LET at(r, c) == a[4 * (c - 1) + r]
        bt(r, c) == b[4 * (c - 1) + r]
        el(r, c) == at(r, 1) * bt(1, c) + at(r, 2) * bt(2, c)
                    + at(r, 3) * bt(3, c) + at(r, 4) * bt(4, c)
    IN  <<el(1, 1), el(2, 1), el(3, 1), el(4, 1),
          el(1, 2), el(2, 2), el(3, 2), el(4, 2),
          el(1, 3), el(2, 3), el(3, 3), el(4, 3),
          el(1, 4), el(2, 4), el(3, 4), el(4, 4)>>

\* Vec3.applyMatrix4 for an affine matrix (the perspective divide is by 1).
ApplyMatrix4(v, m) ==
    [x |-> m[1] * v.x + m[5] * v.y + m[9] * v.z + m[13],
     y |-> m[2] * v.x + m[6] * v.y + m[10] * v.z + m[14],
     z |-> m[3] * v.x + m[7] * v.y + m[11] * v.z + m[15]]

(***************************************************************************)
(* Skinning                                                                *)
(***************************************************************************)
\* abs(mod(w + 1, 2) - 1) with mod(n, m) = ((n % m) + m) % m, on fixed-point
\* numbers (1 is the number 2, 2 is the number 4).
\* With the remainder of n % m taken as it is, without the correction for
\* negative n.
decodeWeight_Remainder(encodedWeight) ==
    Abs(JsRem(encodedWeight + ToFixed(1), ToFixed(2)) - ToFixed(1))

decodeWeight(encodedWeight) ==
    Abs(JsRem(JsRem(encodedWeight + ToFixed(1), ToFixed(2)) + ToFixed(2), ToFixed(2))
        - ToFixed(1))

\* bone.matrixWorld || (bone.getMatrixWorld ? bone.getMatrixWorld() : null)
boneWorldOf(bone) ==
    IF IsSome(bone.matrixWorld) THEN bone.matrixWorld ELSE bone.getMatrixWorld

\* The part of getBoneMatrix after its range check: the bone at an index
\* within skeleton.bones.
boneMatrixAt(skeleton, boneIndex) ==
    LET bone        == skeleton.bones[1][boneIndex + 1]
        boneInverse == IF IsSome(skeleton.boneInverses)
                          /\ boneIndex < Len(skeleton.boneInverses[1])
                       THEN skeleton.boneInverses[1][boneIndex + 1]
                       ELSE None
    IN  IF IsSome(bone) /\ IsSome(boneInverse) /\ IsSome(boneWorldOf(bone[1]))
        THEN MatrixMultiply(boneWorldOf(bone[1])[1], boneInverse[1])
        ELSE IdentityMatrix

maxBoneIndexOf(skeleton) ==
    IF IsSome(skeleton.bones) THEN Len(skeleton.bones[1]) - 1 ELSE -1

getBoneMatrix_Clamped(skeleton, boneIndex) ==
    IF maxBoneIndexOf(skeleton) < 0 THEN IdentityMatrix
    ELSE IF boneIndex < 0 THEN boneMatrixAt(skeleton, 0)
    ELSE IF boneIndex > maxBoneIndexOf(skeleton)
         THEN boneMatrixAt(skeleton, maxBoneIndexOf(skeleton))
    ELSE boneMatrixAt(skeleton, boneIndex)

getBoneMatrix(skeleton, boneIndex) ==
    IF boneIndex < 0 \/ boneIndex > maxBoneIndexOf(skeleton) THEN IdentityMatrix
    ELSE boneMatrixAt(skeleton, boneIndex)

isIdentityMatrix(matrix) ==
    IF ~IsSome(matrix) THEN TRUE ELSE matrix[1] = IdentityMatrix

\* Math.floor of a fixed-point number, as a whole number.
Floor(h) == h \div 2

\* w > 0.0001 for a fixed-point number: 0.0001 is below the resolution.
AboveEpsilon(w) == w > 0

\* One pair (bone index, weight) of the loop over the skin attributes: the
\* sums after it.  acc is <<x, y, z, skinSum>>, x, y, z being products of
\* two fixed-point numbers.
skinPair(skeleton, skinVert, boneIdx, weight, acc) ==
    IF AboveEpsilon(weight)
    THEN LET transformed == ApplyMatrix4(skinVert, getBoneMatrix(skeleton, boneIdx))
         IN  <<acc[1] + transformed.x * weight, acc[2] + transformed.y * weight,
               acc[3] + transformed.z * weight, acc[4] + weight>>
    ELSE acc

RECURSIVE skinLoop(_, _, _, _, _)
skinLoop(skinAttrs, skeleton, skinVert, vertexIndex, acc) ==
    IF skinAttrs = <<>> THEN acc
    ELSE LET item == Head(skinAttrs)[vertexIndex + 1]
         IN  skinLoop(Tail(skinAttrs), skeleton, skinVert, vertexIndex,
                      skinPair(skeleton, skinVert, Floor(item[3]), decodeWeight(item[4]),
                               skinPair(skeleton, skinVert, Floor(item[1]),
                                        decodeWeight(item[2]), acc)))

\* The skin attributes skin0..skin3 that are present, in that order.
presentSkinAttrs(geometry) ==
    Concat([i \in 1..4 |-> geometry.skin[i]])

skinVertexWithPosition(mesh, vertexIndex, x, y, z) ==
    LET geometry  == mesh.geometry[1]
        position  == [x |-> x, y |-> y, z |-> z]
        skinAttrs == presentSkinAttrs(geometry)
    IN  IF skinAttrs = <<>> \/ ~IsSome(mesh.skeleton)
        THEN ApplyMatrix4(position, mesh.matrixWorld)
        ELSE LET bindIsIdentity == isIdentityMatrix(mesh.bindMatrix)
                 skinVert == IF ~bindIsIdentity /\ IsSome(mesh.bindMatrix)
                             THEN ApplyMatrix4(position, mesh.bindMatrix[1])
                             ELSE position
                 acc      == skinLoop(skinAttrs, mesh.skeleton[1], skinVert, vertexIndex,
                                      <<0, 0, 0, 0>>)
                 skinned  == IF AboveEpsilon(acc[4])
                             THEN [x |-> acc[1] \div acc[4], y |-> acc[2] \div acc[4],
                                   z |-> acc[3] \div acc[4]]
                             ELSE skinVert
             IN  IF ~bindIsIdentity /\ IsSome(mesh.bindMatrixInverse)
                 THEN ApplyMatrix4(skinned, mesh.bindMatrixInverse[1])
                 ELSE skinned

(***************************************************************************)
(* The pose resolver                                                       *)
(***************************************************************************)
\* node.updateMatrixWorld(true) on a bone: the cached world transform
\* becomes the one the host computes from the bone's current pose.
updateBone(bone) == [bone EXCEPT !.matrixWorld = Some(bone.pose)]

\* skeleton.update(), where the host provides it: the skeleton's bone
\* matrices are recomputed, one per bone, from the bones' world transforms
\* and the bind-pose inverses.
skeletonUpdate(skeleton) ==
    IF skeleton.hasUpdate
    THEN [skeleton EXCEPT
             !.boneMatrices =
                 Some([i \in 1..(maxBoneIndexOf(skeleton) + 1) |->
                         getBoneMatrix(skeleton, i - 1)])]
    ELSE skeleton

\* The loop over skeleton.bones: bone.updateMatrixWorld(true) on every bone
\* that is there.
updateBones(skeleton) ==
    IF IsSome(skeleton.bones)
    THEN [skeleton EXCEPT
             !.bones = Some([i \in 1..Len(skeleton.bones[1]) |->
                               IF IsSome(skeleton.bones[1][i])
                               THEN Some(updateBone(skeleton.bones[1][i][1]))
                               ELSE None])]
    ELSE skeleton

\* A forced update that copies the wrong way: the node's pose is overwritten
\* by its cached world transform.
forceUpdate_WrongWay(mesh) == [mesh EXCEPT !.pose = mesh.matrixWorld]

\* node.updateMatrixWorld(true): the cached world transform of the node and
\* of each of its descendants becomes the one of its current pose.
RECURSIVE updateMatrixWorld(_)
updateMatrixWorld(node) ==
    [node EXCEPT
        !.matrixWorld = node.pose,
        !.children = [i \in 1..Len(node.children) |-> updateMatrixWorld(node.children[i])]]

\* The forced updates at the start of extractMeshGeometry: the mesh's own
\* world transform and, with a skeleton, that of every bone, then
\* skeleton.update().
forceUpdate(mesh) ==
    [updateMatrixWorld(mesh) EXCEPT
        !.skeleton =
            IF IsSome(mesh.skeleton)
            THEN Some(skeletonUpdate(updateBones(mesh.skeleton[1])))
            ELSE mesh.skeleton]

\* The morph loop for one vertex and one axis (1, 2, 3): the base value plus
\* every morph delta whose influence exceeds 0.0001, scaled by it.
RECURSIVE morphSum(_, _, _, _, _)
morphSum(morphPositions, morphInfluences, m, i, axis) ==
    IF m > Len(morphPositions) THEN 0
    ELSE LET influence == IF m <= Len(morphInfluences) THEN morphInfluences[m] ELSE 0
         IN  (IF AboveEpsilon(influence)
              THEN (morphPositions[m][i + 1][axis] * influence) \div 2
              ELSE 0)
             + morphSum(morphPositions, morphInfluences, m + 1, i, axis)

\* mesh.isSkinnedMesh && mesh.skeleton && geometry.attributes.skin0
isSkinnedMesh(mesh) ==
    mesh.isSkinnedMesh /\ IsSome(mesh.skeleton) /\ IsSome(mesh.geometry[1].skin[1])

\* The body of the vertex loop of extractMeshGeometry for vertex i.
resolveVertex(mesh, i) ==
    LET geometry        == mesh.geometry[1]
        positionAttr    == geometry.position[1]
        hasMorphTargets == IsSome(geometry.morphPosition)
                           /\ Len(geometry.morphPosition[1]) > 0
        morphInfluences == IF IsSome(mesh.morphTargetInfluences)
                           THEN mesh.morphTargetInfluences[1] ELSE <<>>
        morph(axis)     == IF hasMorphTargets
                           THEN morphSum(geometry.morphPosition[1], morphInfluences, 1, i, axis)
                           ELSE 0
    IN  IF isSkinnedMesh(mesh)
        THEN skinVertexWithPosition(mesh, i, positionAttr[i + 1][1] + morph(1),
                                    positionAttr[i + 1][2] + morph(2),
                                    positionAttr[i + 1][3] + morph(3))
        ELSE ApplyMatrix4([x |-> positionAttr[i + 1][1] + morph(1),
                           y |-> positionAttr[i + 1][2] + morph(2),
                           z |-> positionAttr[i + 1][3] + morph(3)], mesh.matrixWorld)

\* extractMeshGeometry on a mesh whose transforms have been updated: the
\* flat array of resolved positions and the index array (or None).
extractMeshGeometry(mesh) ==
    LET count == Len(mesh.geometry[1].position[1])
    IN  [positions |-> Concat([i \in 1..count |->
                                 <<resolveVertex(mesh, i - 1).x, resolveVertex(mesh, i - 1).y,
                                   resolveVertex(mesh, i - 1).z>>]),
         indices   |-> mesh.geometry[1].index]

(***************************************************************************)
(* The triangle assembler                                                  *)
(***************************************************************************)
MAX_COORD == 100

\* -minZ + 2.5: the clearance 2.5 as a fixed-point number.
GROUND_CLEARANCE == 5

\* A mesh is referred to by its place in the display: the number of its
\* slot entry, then the child numbers down to it.
RECURSIVE descend(_, _)
descend(node, path) ==
    IF path = <<>> THEN node ELSE descend(node.children[Head(path)], Tail(path))

MeshAt(meshes, path) == descend(meshes[Head(path)].mesh[1], Tail(path))

RECURSIVE replaceIn(_, _, _)
replaceIn(node, path, new) ==
    IF path = <<>> THEN new
    ELSE [node EXCEPT !.children[Head(path)] = replaceIn(@, Tail(path), new)]

WithMesh(meshes, path, new) ==
    [meshes EXCEPT ![Head(path)].mesh = Some(replaceIn(@[1], Tail(path), new))]

\* array[k], or Undefined past the end (or for an undefined k).
ElementAt(array, k) ==
    IF k # Undefined /\ k >= 0 /\ k < Len(array) THEN array[k + 1] ELSE Undefined

\* A lookup that takes the last vertex for an index beyond the buffer.
getVertex_Clamped(positions, idx) ==
    IF idx = Undefined
    THEN [x |-> Undefined, y |-> Undefined, z |-> Undefined]
    ELSE LET last == (Len(positions) \div 3) - 1
             at   == IF idx > last THEN last ELSE idx
         IN  [x |-> ElementAt(positions, at * 3),
              y |-> ElementAt(positions, at * 3 + 1),
              z |-> ElementAt(positions, at * 3 + 2)]

\* getVertex(idx) of collectTriangles, on the positions of the mesh.
getVertex(positions, idx) ==
    IF idx = Undefined
    THEN [x |-> Undefined, y |-> Undefined, z |-> Undefined]
    ELSE [x |-> ElementAt(positions, idx * 3),
          y |-> ElementAt(positions, idx * 3 + 1),
          z |-> ElementAt(positions, idx * 3 + 2)]

\* Math.abs(c) < MAX_COORD; false for a NaN.
BelowMax(c) == IsNumber(c) /\ Abs(c) < ToFixed(MAX_COORD)

isValidVertex_Inclusive(v) ==
    /\ IsNumber(v.x) /\ Abs(v.x) <= ToFixed(MAX_COORD)
    /\ IsNumber(v.y) /\ Abs(v.y) <= ToFixed(MAX_COORD)
    /\ IsNumber(v.z) /\ Abs(v.z) <= ToFixed(MAX_COORD)

isValidVertex(v) == BelowMax(v.x) /\ BelowMax(v.y) /\ BelowMax(v.z)

\* The three vertex numbers of the group that starts at i.
groupOf(geom, i) ==
    IF IsSome(geom.indices)
    THEN <<ElementAt(geom.indices[1], i), ElementAt(geom.indices[1], i + 1),
           ElementAt(geom.indices[1], i + 2)>>
    ELSE <<i, i + 1, i + 2>>

\* Where the loop over the groups ends: indices.length, or vertCount.
groupEnd(geom) ==
    IF IsSome(geom.indices) THEN Len(geom.indices[1]) ELSE Len(geom.positions) \div 3

\* The candidate triangle of a group, by value.
candidate(geom, i) ==
    [v1 |-> getVertex(geom.positions, groupOf(geom, i)[1]),
     v2 |-> getVertex(geom.positions, groupOf(geom, i)[2]),
     v3 |-> getVertex(geom.positions, groupOf(geom, i)[3])]

\* Whether addTriangle keeps the candidate.
keeps(t) == isValidVertex(t.v1) /\ isValidVertex(t.v2) /\ isValidVertex(t.v3)

\* A triangle list by value: every reference replaced by the vertex it
\* refers to.
Deref(triangles, heap) ==
    [k \in 1..Len(triangles) |->
        [v1 |-> heap[triangles[k].v1], v2 |-> heap[triangles[k].v2],
         v3 |-> heap[triangles[k].v3]]]

\* The first loop of transformTriangles on one vertex object.
remapVertex(v, scale) == [x |-> v.x * scale, y |-> (-v.z) * scale, z |-> v.y * scale]

\* The vertex objects visited by `for tri ... for v of [v1, v2, v3]`.
visitOrder(triangles) ==
    Concat([k \in 1..Len(triangles) |->
               <<triangles[k].v1, triangles[k].v2, triangles[k].v3>>])

RECURSIVE remapAll(_, _, _)
remapAll(ids, scale, heap) ==
    IF ids = <<>> THEN heap
    ELSE remapAll(Tail(ids), scale,
                  [heap EXCEPT ![Head(ids)] = remapVertex(heap[Head(ids)], scale)])

\* Number.POSITIVE_INFINITY, as a number above every coordinate.
PositiveInfinity == 1000000000

RECURSIVE minZOf(_, _, _)
minZOf(ids, heap, minZ) ==
    IF ids = <<>> THEN minZ
    ELSE minZOf(Tail(ids), heap,
                IF heap[Head(ids)].z < minZ THEN heap[Head(ids)].z ELSE minZ)

RECURSIVE liftAll(_, _, _)
liftAll(ids, zOffset, heap) ==
    IF ids = <<>> THEN heap
    ELSE liftAll(Tail(ids), zOffset,
                 [heap EXCEPT ![Head(ids)].z = heap[Head(ids)].z + zOffset])

\* The third loop, given the heap after the first.
liftToGround(ids, heap) ==
    liftAll(ids, (-minZOf(ids, heap, PositiveInfinity)) + GROUND_CLEARANCE, heap)

\* The first loop run twice over the same vertex objects.
transformTriangles_RemapTwice(triangles, scale, heap) ==
    liftToGround(visitOrder(triangles),
                 remapAll(visitOrder(triangles), scale,
                          remapAll(visitOrder(triangles), scale, heap)))

transformTriangles_NoLift(triangles, scale, heap) ==
    remapAll(visitOrder(triangles), scale, heap)

\* transformTriangles changes the vertex objects in place: the heap after it.
transformTriangles(triangles, scale, heap) ==
    liftToGround(visitOrder(triangles), remapAll(visitOrder(triangles), scale, heap))

(***************************************************************************)
(* DataView writes and JavaScript's bit operators                          *)
(***************************************************************************)
\* DataView.setUint16(_, n, true): the two bytes of n mod 2^16, low byte first.
U16LE(n) == <<n % 256, (n \div 256) % 256>>

\* DataView.setUint32(_, n, true) for a number below 2^31.
U32LE(n) == <<n % 256, (n \div 256) % 256, (n \div 65536) % 256, (n \div 16777216) % 256>>

\* a ^ b on the low n bits.
RECURSIVE BitXor(_, _, _)
BitXor(a, b, n) ==
    IF n = 0 THEN 0
    ELSE (((a % 2) + (b % 2)) % 2) + 2 * BitXor(a \div 2, b \div 2, n - 1)

XorByte(a, b) == BitXor(a, b, 8)

\* a ^ b on 32-bit words.
Xor32(u, v) ==
    <<XorByte(u[1], v[1]), XorByte(u[2], v[2]), XorByte(u[3], v[3]), XorByte(u[4], v[4])>>

\* c >>> 1 on a 32-bit word.
Shr1(u) ==
    <<(u[1] \div 2) + 128 * (u[2] % 2), (u[2] \div 2) + 128 * (u[3] % 2),
      (u[3] \div 2) + 128 * (u[4] % 2), u[4] \div 2>>

\* c >>> 8 on a 32-bit word.
Shr8(u) == <<u[2], u[3], u[4], 0>>

\* TextEncoder.encode of one code unit of the Basic Multilingual Plane.
Utf8Unit(c) ==
    IF c < 128 THEN <<c>>
    ELSE IF c < 2048 THEN <<192 + (c \div 64), 128 + (c % 64)>>
    ELSE <<224 + (c \div 4096), 128 + ((c \div 64) % 64), 128 + (c % 64)>>

RECURSIVE TextEncode(_)
TextEncode(str) ==
    IF str = <<>> THEN <<>> ELSE Utf8Unit(Head(str)) \o TextEncode(Tail(str))

(***************************************************************************)
(* SimpleZip                                                               *)
(***************************************************************************)
\* 0xedb88320, low byte first.
CRC_POLY == <<32, 131, 184, 237>>

\* 0xffffffff
ALL_ONES == <<255, 255, 255, 255>>

\* The inner loop of _makeCRCTable: j more rounds on c.
RECURSIVE crcRounds(_, _)
crcRounds(c, j) ==
    IF j = 0 THEN c
    ELSE crcRounds(IF c[1] % 2 = 1 THEN Xor32(CRC_POLY, Shr1(c)) ELSE Shr1(c), j - 1)

makeCRCTable == [i \in 0..255 |-> crcRounds(<<i, 0, 0, 0>>, 8)]

\* One round of the loop of _crc32 for one byte of data.
crc32Round(crc, byte) == Xor32(Shr8(crc), makeCRCTable[XorByte(crc[1], byte)])

\* The loop of _crc32 over data[lo..hi] with the running value crc: the
\* first half of the range, then the second from the value the first half
\* has arrived at (the test on that value makes it be computed before the
\* second half is entered).
RECURSIVE crc32Loop(_, _, _, _)
crc32Loop(data, lo, hi, crc) ==
    IF lo > hi THEN crc
    ELSE IF lo = hi THEN crc32Round(crc, data[lo])
    ELSE LET firstHalf == crc32Loop(data, lo, (lo + hi) \div 2, crc)
         IN  IF Len(firstHalf) = 4
             THEN crc32Loop(data, ((lo + hi) \div 2) + 1, hi, firstHalf)
             ELSE firstHalf

crc32_NoFinalXor(data) == crc32Loop(data, 1, Len(data), ALL_ONES)

crc32(data) == Xor32(crc32Loop(data, 1, Len(data), ALL_ONES), ALL_ONES)

createLocalHeader(nameBytes, data) ==
    U32LE(67324752)            \* 0x04034b50, local file header signature
    \o U16LE(20)               \* version needed
    \o U16LE(0)                \* general purpose bit flag
    \o U16LE(0)                \* compression method (STORE)
    \o U16LE(0)                \* file last mod time
    \o U16LE(0)                \* file last mod date
    \o crc32(data)             \* CRC-32
    \o U32LE(Len(data))        \* compressed size
    \o U32LE(Len(data))        \* uncompressed size
    \o U16LE(Len(nameBytes))   \* file name length
    \o U16LE(0)                \* extra field length
    \o nameBytes

createCentralHeader(nameBytes, data, localOffset) ==
    U32LE(33639248)            \* 0x02014b50, central directory signature
    \o U16LE(20)               \* version made by
    \o U16LE(20)               \* version needed
    \o U16LE(0)                \* general purpose bit flag
    \o U16LE(0)                \* compression method (STORE)
    \o U16LE(0)                \* file last mod time
    \o U16LE(0)                \* file last mod date
    \o crc32(data)             \* CRC-32
    \o U32LE(Len(data))        \* compressed size
    \o U32LE(Len(data))        \* uncompressed size
    \o U16LE(Len(nameBytes))   \* file name length
    \o U16LE(0)                \* extra field length
    \o U16LE(0)                \* file comment length
    \o U16LE(0)                \* disk number start
    \o U16LE(0)                \* internal file attributes
    \o U32LE(0)                \* external file attributes
    \o U32LE(localOffset)      \* relative offset of local header
    \o nameBytes

createEOCD_Swapped(numFiles, centralSize, centralOffset) ==
    U32LE(101010256) \o U16LE(0) \o U16LE(0) \o U16LE(numFiles) \o U16LE(numFiles)
    \o U32LE(centralOffset) \o U32LE(centralSize) \o U16LE(0)

createEOCD(numFiles, centralSize, centralOffset) ==
    U32LE(101010256)           \* 0x06054b50, EOCD signature
    \o U16LE(0)                \* disk number
    \o U16LE(0)                \* disk with central directory
    \o U16LE(numFiles)         \* number of entries on this disk
    \o U16LE(numFiles)         \* total number of entries
    \o U32LE(centralSize)      \* size of central directory
    \o U32LE(centralOffset)    \* offset of central directory
    \o U16LE(0)                \* comment length

\* The first loop of generate(): the local headers, each with the offset at
\* which it will be placed.
RECURSIVE localHeaders(_, _)
localHeaders(files, offset) ==
    IF files = <<>> THEN <<>>
    ELSE LET file   == Head(files)
             header == createLocalHeader(TextEncode(file.name), file.data)
         IN  <<[header |-> header, data |-> file.data, offset |-> offset]>>
             \o localHeaders(Tail(files), offset + Len(header) + Len(file.data))

generate(files) ==
    LET locals       == localHeaders(files, 0)
        last         == locals[Len(locals)]
        \* the value of offset when the first loop ends
        centralStart == IF locals = <<>> THEN 0
                        ELSE last.offset + Len(last.header) + Len(last.data)
        centrals     == [i \in 1..Len(files) |->
                            createCentralHeader(TextEncode(files[i].name),
                                                files[i].data, locals[i].offset)]
        centralEnd   == centralStart + SumSeq([i \in 1..Len(centrals) |-> Len(centrals[i])])
        eocd         == createEOCD(Len(files), centralEnd - centralStart, centralStart)
    IN  Concat([i \in 1..Len(locals) |-> locals[i].header \o locals[i].data])
        \o Concat(centrals)
        \o eocd

(***************************************************************************)
(* The binary STL encoder                                                  *)
(***************************************************************************)
\* 2^n
RECURSIVE Pow2(_)
Pow2(n) == IF n = 0 THEN 1 ELSE 2 * Pow2(n - 1)

\* The position of the highest set bit of a > 0.
RECURSIVE HighBit(_)
HighBit(a) == IF a < 2 THEN 0 ELSE 1 + HighBit(a \div 2)

\* DataView.setFloat32(_, h / 2, true) for a fixed-point number h of at most
\* 24 significant bits: the IEEE 754 single, low byte first.  The sign of a
\* zero is not modelled: zero is written as +0.
Float32LE(h) ==
    IF h = 0 THEN <<0, 0, 0, 0>>
    ELSE LET k == HighBit(Abs(h))
             w == (k + 126) * 8388608 + (Abs(h) - Pow2(k)) * Pow2(23 - k)
         IN  <<w % 256, (w \div 256) % 256, (w \div 65536) % 256,
               (w \div 16777216) + (IF h < 0 THEN 128 ELSE 0)>>

\* Math.sqrt on a perfect square (by bisection between lo and hi).
RECURSIVE SqrtBetween(_, _, _)
SqrtBetween(n, lo, hi) ==
    IF lo >= hi THEN lo
    ELSE IF ((lo + hi + 1) \div 2) * ((lo + hi + 1) \div 2) <= n
         THEN SqrtBetween(n, (lo + hi + 1) \div 2, hi)
         ELSE SqrtBetween(n, lo, ((lo + hi + 1) \div 2) - 1)

Sqrt(n) == SqrtBetween(n, 0, 46340)

\* The cross product (v2 - v1) x (v3 - v1), before it is normalised.
crossProduct(v1, v2, v3) ==
    [x |-> (v2.y - v1.y) * (v3.z - v1.z) - (v2.z - v1.z) * (v3.y - v1.y),
     y |-> (v2.z - v1.z) * (v3.x - v1.x) - (v2.x - v1.x) * (v3.z - v1.z),
     z |-> (v2.x - v1.x) * (v3.y - v1.y) - (v2.y - v1.y) * (v3.x - v1.x)]

\* n / len as a fixed-point number.
normalise(n, len) == IF len > 0 THEN (2 * n) \div len ELSE n

normalOf(n, len) ==
    [x |-> normalise(n.x, len), y |-> normalise(n.y, len), z |-> normalise(n.z, len)]

normalOfCross(n) == normalOf(n, Sqrt(n.x * n.x + n.y * n.y + n.z * n.z))

calculateNormal_Swapped(v1, v2, v3) == normalOfCross(crossProduct(v1, v3, v2))

calculateNormal(v1, v2, v3) == normalOfCross(crossProduct(v1, v2, v3))

\* The three floats of a vertex.
vertexFloats(v) == Float32LE(v.x) \o Float32LE(v.y) \o Float32LE(v.z)

\* The 50 bytes written for one triangle.
triangleRecord(tri) ==
    vertexFloats(calculateNormal(tri.v1, tri.v2, tri.v3))
    \o vertexFloats(tri.v1) \o vertexFloats(tri.v2) \o vertexFloats(tri.v3)
    \o U16LE(0)

\* The 80 header bytes: setUint8 keeps the low 8 bits of each code unit.
stlHeader(headerText) ==
    [i \in 1..80 |-> IF i <= Len(headerText) THEN headerText[i] % 256 ELSE 0]

trianglesToSTL(triangles, headerText) ==
    stlHeader(headerText)
    \o U32LE(Len(triangles))
    \o Concat([i \in 1..Len(triangles) |-> triangleRecord(triangles[i])])

(***************************************************************************)
(* The archive as an object: new SimpleZip(), addFile, generate            *)
(***************************************************************************)
MaxFiles == 2

\* "a", "b.stl"-like short name with a dot, and "\u00e9x", whose UTF-8 form
\* is one byte longer than its length in code units.
ZipNames == {<<97>>, <<98, 46, 115>>, <<233, 120>>}

ZipDatas == {<<>>, <<0>>, <<97, 98>>, <<255, 0, 128>>}

ZipIdle ==
    /\ zipFiles = <<>>
    /\ zipResult = NoBuffer

StlIdle ==
    /\ stlTriangles = <<>>
    /\ stlHeaderText = <<>>
    /\ stlBuffer = NoBuffer

\* No host: neither CK nor RK is defined.
HostIdle ==
    /\ CK = [defined |-> FALSE, hasScene |-> FALSE, display |-> "absent", meshes |-> <<>>]
    /\ console = <<>>

TriIdle ==
    /\ vertexHeap = <<>>
    /\ triPc = "idle"
    /\ triMeshes = <<>>
    /\ triScale = 0
    /\ triMeshIdx = 0
    /\ triGeom = [positions |-> <<>>, indices |-> None]
    /\ triI = 0
    /\ allTriangles = <<>>
    /\ skippedTriangles = 0

ExIdle ==
    /\ exPc = "idle"
    /\ options = [filename |-> <<>>, scale |-> 0, separateBase |-> FALSE]
    /\ characterMeshes = <<>>
    /\ baseMeshes = <<>>
    /\ charTriangles = <<>>
    /\ baseTriangles = <<>>
    /\ mergedTriangles = <<>>
    /\ downloads = <<>>

BoneIdle ==
    /\ boneSkeleton = None
    /\ boneCall = None

WeightIdle == weightCall = None

ResIdle ==
    /\ resMesh = None
    /\ resPc = "idle"
    /\ resBone = 0
    /\ resI = 0
    /\ resPositions = <<>>
    /\ resPath = <<>>

ZipInit ==
    /\ WeightIdle
    /\ ResIdle
    /\ ZipIdle
    /\ StlIdle
    /\ HostIdle
    /\ TriIdle
    /\ ExIdle
    /\ BoneIdle

\* new SimpleZip(): a fresh archive replaces the finished one.
ZipNew ==
    /\ zipResult # NoBuffer
    /\ zipFiles' = <<>>
    /\ zipResult' = NoBuffer
    /\ UNCHANGED <<stlVars, hostVars, triVars, exVars, boneVars, weightVars,
                   resVars>>

ZipAddFile(name, data) ==
    /\ zipResult = NoBuffer
    /\ Len(zipFiles) < MaxFiles
    /\ zipFiles' = Append(zipFiles, [name |-> name, data |-> data])
    /\ UNCHANGED <<zipResult, stlVars, hostVars, triVars, exVars, boneVars, weightVars,
                   resVars>>

ZipGenerate ==
    /\ zipResult = NoBuffer
    /\ zipResult' = generate(zipFiles)
    /\ UNCHANGED <<zipFiles, stlVars, hostVars, triVars, exVars, boneVars, weightVars,
                   resVars>>

ZipNext ==
    \/ ZipNew
    \/ \E name \in ZipNames, data \in ZipDatas : ZipAddFile(name, data)
    \/ ZipGenerate

SpecZip == ZipInit /\ [][ZipNext]_vars

(***************************************************************************)
(* The scene walk: isBaseMesh, shouldIncludeMesh, collectMeshes            *)
(***************************************************************************)
\* The string literals of the scene walk, as UTF-16 code units.
\* 'base'
StrBase == <<98, 97, 115, 101>>

\* 'pedestal'
StrPedestal == <<112, 101, 100, 101, 115, 116, 97, 108>>

\* 'ground'
StrGround == <<103, 114, 111, 117, 110, 100>>

\* 'floor'
StrFloor == <<102, 108, 111, 111, 114>>

\* 'plane'
StrPlane == <<112, 108, 97, 110, 101>>

\* 'shadow'
StrShadow == <<115, 104, 97, 100, 111, 119>>

\* 'reflector'
StrReflector == <<114, 101, 102, 108, 101, 99, 116, 111, 114>>

\* 'facePads'
StrFacePads == <<102, 97, 99, 101, 80, 97, 100, 115>>

\* '_debugPass'
StrDebugPass == <<95, 100, 101, 98, 117, 103, 80, 97, 115, 115>>

\* '_'
StrUnderscore == <<95>>

\* String.prototype.toLowerCase on one code unit of the Latin-1 range.
LowerUnit(c) ==
    IF (c >= 65 /\ c <= 90) \/ (c >= 192 /\ c <= 222 /\ c # 215) THEN c + 32 ELSE c

toLowerCase(s) == [i \in 1..Len(s) |-> LowerUnit(s[i])]

startsWith(s, prefix) == Len(s) >= Len(prefix) /\ SubSeq(s, 1, Len(prefix)) = prefix

includes(s, part) ==
    \E i \in 1..(Len(s) - Len(part) + 1) : SubSeq(s, i, i + Len(part) - 1) = part

isBaseMesh_SlotOnly(slotName, meshName) ==
    \/ startsWith(toLowerCase(slotName), StrBase)
    \/ includes(toLowerCase(slotName), StrPedestal)

isBaseMesh(slotName, meshName) ==
    \/ startsWith(toLowerCase(slotName), StrBase)
    \/ startsWith(toLowerCase(meshName), StrBase)
    \/ includes(toLowerCase(slotName), StrPedestal)
    \/ includes(toLowerCase(meshName), StrPedestal)

\* The five substrings that exclude a mesh by its name or its slot's name.
namesScenery(lower) ==
    \/ includes(lower, StrGround)
    \/ includes(lower, StrFloor)
    \/ includes(lower, StrPlane)
    \/ includes(lower, StrShadow)
    \/ includes(lower, StrReflector)

shouldIncludeMesh(mesh, slotName) ==
    /\ IsSome(mesh.geometry)
    /\ mesh.visible
    /\ ~startsWith(slotName, StrUnderscore)
    /\ mesh.name # StrFacePads
    /\ mesh.name # StrDebugPass
    /\ IsSome(mesh.geometry[1].position)
    /\ Len(mesh.geometry[1].position[1]) >= 3
    /\ mesh.geometry[1].type # "PlaneBufferGeometry"
    /\ mesh.geometry[1].type # "PlaneGeometry"
    /\ ~namesScenery(toLowerCase(mesh.name))
    /\ ~namesScenery(toLowerCase(slotName))

\* A walk that descends into every child, whatever its name.
descendsInto_Always(child) == TRUE

\* The child is one the loop of collectRecursive descends into.
descendsInto(child) == child.name # StrFacePads /\ child.name # StrDebugPass

\* collectRecursive(object, slotName) for the object at `path`: the meshes it
\* pushes, in the order it pushes them, before they are told apart.
RECURSIVE collectRecursive(_, _, _)
collectRecursive(meshes, path, slotName) ==
    (IF (MeshAt(meshes, path).isMesh \/ MeshAt(meshes, path).isSkinnedMesh)
        /\ shouldIncludeMesh(MeshAt(meshes, path), slotName)
     THEN <<path>> ELSE <<>>)
    \o Concat([k \in 1..Len(MeshAt(meshes, path).children) |->
                  IF descendsInto(MeshAt(meshes, path).children[k])
                  THEN collectRecursive(meshes, Append(path, k), slotName)
                  ELSE <<>>])

\* The loop over Object.entries(display.meshes).
collectSlots(meshes) ==
    Concat([k \in 1..Len(meshes) |->
               IF meshes[k].mesh = None \/ startsWith(meshes[k].slot, StrUnderscore)
               THEN <<>>
               ELSE collectRecursive(meshes, <<k>>, meshes[k].slot)])

\* The pushed meshes that isBaseMesh sends to baseMeshes (base = TRUE) or to
\* characterMeshes (base = FALSE), in the order pushed.
RECURSIVE routed(_, _, _)
routed(meshes, paths, base) ==
    IF paths = <<>> THEN <<>>
    ELSE (IF isBaseMesh(meshes[Head(Head(paths))].slot, MeshAt(meshes, Head(paths)).name) = base
          THEN <<Head(paths)>> ELSE <<>>)
         \o routed(meshes, Tail(paths), base)

\* collectMeshes(): the two sequences, and what it writes to the console.
collectMeshes(ck) ==
    IF ck.display # "present"
    THEN [characterMeshes |-> <<>>, baseMeshes |-> <<>>,
          console |-> <<"error: No active display found.">>]
    ELSE [characterMeshes |-> routed(ck.meshes, collectSlots(ck.meshes), FALSE),
          baseMeshes      |-> routed(ck.meshes, collectSlots(ck.meshes), TRUE),
          console         |-> <<"log: Collected meshes">>]

(***************************************************************************)
(* collectTriangles and transformTriangles as a call in progress           *)
(***************************************************************************)
\* for (const mesh of meshes): extractMeshGeometry(mesh), which first forces
\* the mesh's and its bones' world transforms up to date.
TriNextMesh ==
    /\ triPc = "mesh"
    /\ triMeshIdx < Len(triMeshes)
    /\ CK' = [CK EXCEPT !.meshes =
                 WithMesh(@, triMeshes[triMeshIdx + 1],
                          forceUpdate(MeshAt(@, triMeshes[triMeshIdx + 1])))]
    /\ triGeom' = extractMeshGeometry(forceUpdate(MeshAt(CK.meshes, triMeshes[triMeshIdx + 1])))
    /\ triI' = 0
    /\ triPc' = "group"
    /\ UNCHANGED <<console, vertexHeap, triMeshes, triScale, triMeshIdx, allTriangles,
                   skippedTriangles, zipVars, stlVars, exVars, boneVars, weightVars,
                   resVars>>

\* One call of addTriangle from either loop, and i += 3.
TriAddTriangle ==
    /\ triPc = "group"
    /\ triI < groupEnd(triGeom)
    /\ IF keeps(candidate(triGeom, triI))
       THEN /\ vertexHeap' = vertexHeap \o <<candidate(triGeom, triI).v1,
                                              candidate(triGeom, triI).v2,
                                              candidate(triGeom, triI).v3>>
            /\ allTriangles' = Append(allTriangles,
                                      [v1 |-> Len(vertexHeap) + 1, v2 |-> Len(vertexHeap) + 2,
                                       v3 |-> Len(vertexHeap) + 3])
            /\ UNCHANGED skippedTriangles
       ELSE /\ skippedTriangles' = skippedTriangles + 1
            /\ UNCHANGED <<vertexHeap, allTriangles>>
    /\ triI' = triI + 3
    /\ UNCHANGED <<hostVars, triPc, triMeshes, triScale, triMeshIdx, triGeom, zipVars, stlVars,
                   exVars, boneVars, weightVars,
                   resVars>>

\* The loop over the groups of a mesh ends.
TriMeshDone ==
    /\ triPc = "group"
    /\ triI >= groupEnd(triGeom)
    /\ triMeshIdx' = triMeshIdx + 1
    /\ triPc' = "mesh"
    /\ UNCHANGED <<hostVars, vertexHeap, triMeshes, triScale, triGeom, triI, allTriangles,
                   skippedTriangles, zipVars, stlVars, exVars, boneVars, weightVars,
                   resVars>>

\* The loop over the meshes ends: the warning, and return allTriangles.
TriReturn ==
    /\ triPc = "mesh"
    /\ triMeshIdx = Len(triMeshes)
    /\ console' = IF skippedTriangles > 0 THEN Append(console, "warn: skipped triangles")
                  ELSE console
    /\ triPc' = "collected"
    /\ UNCHANGED <<CK, vertexHeap, triMeshes, triScale, triMeshIdx, triGeom, triI,
                   allTriangles, skippedTriangles, zipVars, stlVars, exVars, boneVars, weightVars,
                   resVars>>

\* transformTriangles(allTriangles, scale) on the list just collected.
TriTransform(scale) ==
    /\ triPc = "collected"
    /\ triScale' = scale
    /\ vertexHeap' = transformTriangles(allTriangles, scale, vertexHeap)
    /\ triPc' = "transformed"
    /\ UNCHANGED <<hostVars, triMeshes, triMeshIdx, triGeom, triI, allTriangles,
                   skippedTriangles, zipVars, stlVars, exVars, boneVars, weightVars,
                   resVars>>

(***************************************************************************)
(* Meshes and scenes that the model is run on                              *)
(***************************************************************************)
Geometry(type, position, index) ==
    [type |-> type, position |-> position, index |-> index,
     skin |-> <<None, None, None, None>>, morphPosition |-> None]

\* A visible plain mesh with no children and the identity as its transform.
PlainMesh(name, geometry) ==
    [name |-> name, isMesh |-> TRUE, isSkinnedMesh |-> FALSE, visible |-> TRUE,
     geometry |-> geometry, skeleton |-> None,
     matrixWorld |-> IdentityMatrix, pose |-> IdentityMatrix,
     bindMatrix |-> None, bindMatrixInverse |-> None,
     morphTargetInfluences |-> None, children |-> <<>>]

Entry(slot, mesh) == [slot |-> slot, mesh |-> mesh]

Host(meshes) == [defined |-> TRUE, hasScene |-> TRUE, display |-> "present", meshes |-> meshes]

\* "body", "Torso"
NameBody == <<98, 111, 100, 121>>

NameTorso == <<84, 111, 114, 115, 111>>

\* The largest index value of the index buffers tried (index 4 and above lie
\* outside the four-vertex position buffers).
MaxIndex == 4

\* Position buffers of four vertices: the first three within the bound, the
\* last within it (99.5 and -99.5), on it (100, -100), or beyond it.
TriPositionBuffers ==
    { <<<<0, 0, 0>>, <<2, 0, 0>>, <<0, 2, -4>>>> \o <<d>> :
        d \in { <<199, -199, 6>>, <<200, 0, 0>>, <<0, -200, 0>>, <<0, 0, 200>>,
                <<-250, 300, 2>> } }

\* Index buffers: every single group, buffers of two groups, buffers whose
\* length is not a multiple of 3, and no index buffer.
TriIndexBuffers ==
    { Some(<<a, b, c>>) : a \in 0..MaxIndex, b \in 0..MaxIndex, c \in 0..MaxIndex }
    \cup { Some(<<0, 1, 2, 3, 1, 0>>), Some(<<0, 1, 2, 1, 0, 3>>),
           Some(<<3, 3, 3, 2, 1, 0>>), Some(<<0, 1, 2, 3>>),
           Some(<<0, 1, 3, 2, 0>>), Some(<<>>), None }

\* Position buffers for meshes without an index buffer: 3, 5, 6 and 7
\* vertices.
TriLongBuffers ==
    { <<<<0, 0, 0>>, <<2, 0, 0>>, <<0, 2, -4>>>>,
      <<<<0, 0, 0>>, <<2, 0, 0>>, <<0, 2, -4>>, <<1, 1, 1>>, <<6, 6, 6>>>>,
      <<<<0, 0, 0>>, <<2, 0, 0>>, <<0, 2, -4>>, <<1, 1, 1>>, <<0, 0, 200>>, <<6, 6, 6>>>>,
      <<<<0, 0, 0>>, <<-200, 0, 0>>, <<0, 2, -4>>, <<1, 1, 1>>, <<0, 0, 8>>, <<6, 6, 6>>,
        <<0, 0, 0>>>> }

TriMeshSet ==
    { PlainMesh(NameTorso, Some(Geometry("BufferGeometry", Some(p), i))) :
        p \in TriPositionBuffers, i \in TriIndexBuffers }
    \cup { PlainMesh(NameTorso, Some(Geometry("BufferGeometry", Some(p), None))) :
             p \in TriLongBuffers }

\* A second mesh, in scenes of two: moved by its world transform, which the
\* cached matrixWorld does not show yet.
TriSecondMeshes ==
    { [PlainMesh(NameBody, Some(Geometry("BufferGeometry",
                                         Some(<<<<0, 0, 0>>, <<2, 0, 0>>, <<0, 2, d>>>>), None)))
         EXCEPT !.pose = TranslationMatrix(0, 0, 100)] : d \in {4, 100} }

TriScenes ==
    { <<Entry(NameBody, Some(m))>> : m \in TriMeshSet }
    \cup { <<Entry(NameBody, Some(m)), Entry(NameBody, Some(n))>> :
             m \in { PlainMesh(NameTorso, Some(Geometry("BufferGeometry", Some(p), Some(<<0, 1, 3>>)))) :
                       p \in TriPositionBuffers },
             n \in TriSecondMeshes }
    \cup { <<Entry(NameBody,
                   Some(PlainMesh(NameTorso,
                                  Some(Geometry("BufferGeometry", Some(p),
                                                Some(<<0, 1, 4, 2, 1>>)))))),
             Entry(NameBody, Some(n))>> :
             p \in TriPositionBuffers, n \in TriSecondMeshes }

Scales == {-3, 0, 1, 10}

TriInit ==
    /\ WeightIdle
    /\ ResIdle
    /\ ZipIdle
    /\ StlIdle
    /\ ExIdle
    /\ BoneIdle
    /\ console = <<>>
    /\ CK \in { Host(meshes) : meshes \in TriScenes }
    /\ vertexHeap = <<>>
    /\ triPc = "mesh"
    /\ triMeshes = [k \in 1..Len(CK.meshes) |-> <<k>>]
    /\ triScale = 0
    /\ triMeshIdx = 0
    /\ triGeom = [positions |-> <<>>, indices |-> None]
    /\ triI = 0
    /\ allTriangles = <<>>
    /\ skippedTriangles = 0

TriNext ==
    \/ TriNextMesh
    \/ TriAddTriangle
    \/ TriMeshDone
    \/ TriReturn
    \/ \E scale \in Scales : TriTransform(scale)

SpecTriangles == TriInit /\ [][TriNext]_vars

(***************************************************************************)
(* The validity filter of collectTriangles                                 *)
(***************************************************************************)
\* The nine coordinates of a triangle held by value.
CoordinatesOf(t) ==
    <<t.v1.x, t.v1.y, t.v1.z, t.v2.x, t.v2.y, t.v2.z, t.v3.x, t.v3.y, t.v3.z>>

\* The coordinate is a number of absolute value >= 100.
OutOfBound(c) == IsNumber(c) /\ (c >= ToFixed(100) \/ c <= -ToFixed(100))

\* The coordinate is a number of absolute value < 100.
WithinBound(c) == IsNumber(c) /\ c < ToFixed(100) /\ c > -ToFixed(100)

\* One call of addTriangle is made in this step.
AddTriangleCalled == triPc = "group" /\ triI' = triI + 3

\* The call kept the candidate: a triangle equal to it is the new last
\* element of the list, and the discarded count is as before.
CandidateKept ==
    /\ Len(allTriangles') = Len(allTriangles) + 1
    /\ SubSeq(allTriangles', 1, Len(allTriangles)) = allTriangles
    /\ Deref(allTriangles', vertexHeap')[Len(allTriangles')] = candidate(triGeom, triI)
    /\ skippedTriangles' = skippedTriangles

\* The call excluded the candidate: the list is as before and the discarded
\* count is one more.
CandidateExcluded ==
    /\ allTriangles' = allTriangles
    /\ skippedTriangles' = skippedTriangles + 1

ListWithinBound ==
    \A k \in 1..Len(allTriangles') : \A c \in 1..9 :
        WithinBound(CoordinatesOf(Deref(allTriangles', vertexHeap')[k])[c])

\* C5 as stated: a candidate triangle is excluded if and only if at least one
\* of its nine coordinates has absolute value >= 100; an excluded triangle
\* adds exactly 1 to the discarded count, a kept one is appended, and every
\* triangle of the list has all coordinates of absolute value < 100.
FilterAsStatedStep ==
    AddTriangleCalled =>
        /\ IF \E c \in 1..9 : OutOfBound(CoordinatesOf(candidate(triGeom, triI))[c])
           THEN CandidateExcluded
           ELSE CandidateKept
        /\ ListWithinBound

FilterAsStated == [][FilterAsStatedStep]_vars

\* C5, amended: a candidate triangle is excluded if and only if at least one
\* of its nine coordinates is not a number of absolute value < 100, which is
\* the case when it has absolute value >= 100 and also when it is missing
\* because the group reaches beyond the index or position buffer; an excluded
\* triangle adds exactly 1 to the discarded count, whichever and however many
\* of its vertices offend, a kept one is appended unchanged, and every
\* triangle of the list has all coordinates of absolute value < 100.
FilterStep ==
    AddTriangleCalled =>
        /\ IF \E c \in 1..9 : ~WithinBound(CoordinatesOf(candidate(triGeom, triI))[c])
           THEN CandidateExcluded
           ELSE CandidateKept
        /\ ListWithinBound

Filter == [][FilterStep]_vars

\* A call has excluded a triangle whose only offending coordinate, exactly
\* 100, lies in its third vertex, after an earlier call kept a triangle.
FilterWitness ==
    /\ triPc = "group"
    /\ triI = 6
    /\ skippedTriangles = 1
    /\ Len(allTriangles) = 1
    /\ Cardinality({c \in 1..9 : ~WithinBound(CoordinatesOf(candidate(triGeom, 3))[c])}) = 1
    /\ candidate(triGeom, 3).v3.z = ToFixed(100)

(***************************************************************************)
(* A reader of the ZIP format, used to state what generate() promises      *)
(***************************************************************************)
\* The byte at offset p, or 0 past the end of the buffer.
ByteAt(buf, p) == IF p >= 0 /\ p < Len(buf) THEN buf[p + 1] ELSE 0

BytesAt(buf, p, n) == [i \in 1..n |-> ByteAt(buf, p + i - 1)]

RdU16(buf, p) == ByteAt(buf, p) + 256 * ByteAt(buf, p + 1)

\* A 32-bit field read as a number; the top byte is reduced so that the
\* number stays below 2^31 whatever the buffer holds.
RdU32(buf, p) ==
    ByteAt(buf, p) + 256 * ByteAt(buf, p + 1) + 65536 * ByteAt(buf, p + 2)
    + 16777216 * (ByteAt(buf, p + 3) % 128)

RECURSIVE Utf8Decode(_)
Utf8Decode(bytes) ==
    IF bytes = <<>> THEN <<>>
    ELSE IF bytes[1] < 128 \/ Len(bytes) < 2
         THEN <<bytes[1]>> \o Utf8Decode(Tail(bytes))
    ELSE IF bytes[1] < 224 \/ Len(bytes) < 3
         THEN <<(bytes[1] % 32) * 64 + (bytes[2] % 64)>> \o Utf8Decode(Tail(Tail(bytes)))
    ELSE <<(bytes[1] % 16) * 4096 + (bytes[2] % 64) * 64 + (bytes[3] % 64)>>
         \o Utf8Decode(Tail(Tail(Tail(bytes))))

\* CRC-32 bit by bit: reflected polynomial 0xEDB88320, initial value and
\* final complement 0xFFFFFFFF.
RECURSIVE RefCrcBits(_, _)
RefCrcBits(c, k) ==
    IF k = 0 THEN c
    ELSE RefCrcBits(IF c[1] % 2 = 1 THEN Xor32(Shr1(c), <<32, 131, 184, 237>>)
                    ELSE Shr1(c), k - 1)

\* The register after the bytes data[lo..hi], from the register c.
RECURSIVE RefCrcBytes(_, _, _, _)
RefCrcBytes(data, lo, hi, c) ==
    IF lo > hi THEN c
    ELSE IF lo = hi THEN RefCrcBits(Xor32(c, <<data[lo], 0, 0, 0>>), 8)
    ELSE LET firstHalf == RefCrcBytes(data, lo, (lo + hi) \div 2, c)
         IN  IF Len(firstHalf) = 4
             THEN RefCrcBytes(data, ((lo + hi) \div 2) + 1, hi, firstHalf)
             ELSE firstHalf

RefCrc32(data) ==
    Xor32(RefCrcBytes(data, 1, Len(data), <<255, 255, 255, 255>>), <<255, 255, 255, 255>>)

ZipEocdPos(buf) == Len(buf) - 22

ZipCount(buf) == RdU16(buf, ZipEocdPos(buf) + 10)

\* The position of the k-th central record, walking the directory from the
\* offset the end-of-directory record gives.
RECURSIVE ZipCentralPos(_, _)
ZipCentralPos(buf, k) ==
    IF k = 1 THEN RdU32(buf, ZipEocdPos(buf) + 16)
    ELSE LET p == ZipCentralPos(buf, k - 1)
         IN  p + 46 + RdU16(buf, p + 28) + RdU16(buf, p + 30) + RdU16(buf, p + 32)

\* What a reader recovers from the central record at c and the local record
\* at l whose bytes start at d.
ZipEntryAt(buf, c, l, d) ==
    [centralSig   |-> BytesAt(buf, c, 4),
     centralName  |-> Utf8Decode(BytesAt(buf, c + 46, RdU16(buf, c + 28))),
     centralCrc   |-> BytesAt(buf, c + 16, 4),
     centralSizes |-> <<RdU32(buf, c + 20), RdU32(buf, c + 24)>>,
     method       |-> <<RdU16(buf, c + 10), RdU16(buf, l + 8)>>,
     localPos     |-> l,
     localSig     |-> BytesAt(buf, l, 4),
     localName    |-> Utf8Decode(BytesAt(buf, l + 30, RdU16(buf, l + 26))),
     localCrc     |-> BytesAt(buf, l + 14, 4),
     localSizes   |-> <<RdU32(buf, l + 18), RdU32(buf, l + 22)>>,
     data         |-> BytesAt(buf, d, RdU32(buf, l + 18))]

ZipLocalPos(buf, c) == RdU32(buf, c + 42)

ZipDataPos(buf, l) == l + 30 + RdU16(buf, l + 26) + RdU16(buf, l + 28)

\* What a reader recovers for the k-th entry of the directory.
ZipEntry(buf, k) ==
    ZipEntryAt(buf, ZipCentralPos(buf, k),
               ZipLocalPos(buf, ZipCentralPos(buf, k)),
               ZipDataPos(buf, ZipLocalPos(buf, ZipCentralPos(buf, k))))

\* The entries a reader recovers, in directory order.
ZipRead(buf) == [k \in 1..ZipCount(buf) |-> ZipEntry(buf, k)]

\* What one entry must read back as.
ZipEntryMatches(e, f) ==
    /\ e.centralSig = <<80, 75, 1, 2>>
    /\ e.localSig = <<80, 75, 3, 4>>
    /\ e.centralName = f.name
    /\ e.localName = f.name
    /\ e.data = f.data
    /\ e.localCrc = RefCrc32(f.data)
    /\ e.centralCrc = e.localCrc
    /\ e.localSizes = <<Len(f.data), Len(f.data)>>
    /\ e.centralSizes = e.localSizes
    /\ e.method = <<0, 0>>

ZipReadMatches(entries, files) ==
    /\ Len(entries) = Len(files)
    /\ \A k \in 1..Len(files) :
          /\ ZipEntryMatches(entries[k], files[k])
          /\ k > 1 => entries[k - 1].localPos < entries[k].localPos

\* C7: reading back an archive that generate() produced recovers the entries
\* in the order they were added, each with its name and bytes unchanged; the
\* CRC-32 of the local record and of the central record both equal the
\* CRC-32 of the stored bytes, and the stored size equals the uncompressed
\* size (the length of the bytes), with the STORE method.
ZipRoundTrip ==
    zipResult # NoBuffer => ZipReadMatches(ZipRead(zipResult), zipFiles)

\* Witness of C7: a generated archive of two different entries, one of them
\* with a name outside ASCII, both with bytes.
ZipRoundTripWitness ==
    /\ zipResult # NoBuffer
    /\ Len(zipFiles) = 2
    /\ zipFiles[1].name = <<233, 120>>
    /\ zipFiles[2].name = <<97>>
    /\ zipFiles[1].data = <<255, 0, 128>>
    /\ zipFiles[2].data = <<97, 98>>

\* The length in bytes of the k-th added entry's name and of its bytes.
ZipNameLen(k) == Len(TextEncode(zipFiles[k].name))

ZipDataLen(k) == Len(zipFiles[k].data)

\* Where the k-th local record starts: after the records of the entries
\* before it (k = Len(zipFiles) + 1: where the local records end).
ZipLocalStart(k) == SumSeq([j \in 1..(k - 1) |-> 30 + ZipNameLen(j) + ZipDataLen(j)])

ZipDirectorySize(k) == SumSeq([j \in 1..k |-> 46 + ZipNameLen(j)])

\* C8: the offset field of each central record is the position at which
\* that entry's local record starts; the end-of-directory record gives the
\* number of entries, the position of the first central record and the size
\* of the directory, and is the last 22 bytes of the buffer.
ZipDirectoryOffsets ==
    zipResult # NoBuffer =>
        LET n      == Len(zipFiles)
            buf    == zipResult
            cstart == ZipLocalStart(n + 1)
            eocd   == Len(buf) - 22
        IN  /\ \A k \in 1..n :
                  LET c == cstart + ZipDirectorySize(k - 1)
                  IN  /\ BytesAt(buf, c, 4) = <<80, 75, 1, 2>>
                      /\ RdU32(buf, c + 42) = ZipLocalStart(k)
                      /\ BytesAt(buf, ZipLocalStart(k), 4) = <<80, 75, 3, 4>>
                      /\ BytesAt(buf, ZipLocalStart(k) + 30, ZipNameLen(k))
                            = TextEncode(zipFiles[k].name)
                      /\ BytesAt(buf, ZipLocalStart(k) + 30 + ZipNameLen(k), ZipDataLen(k))
                            = zipFiles[k].data
            /\ eocd = cstart + ZipDirectorySize(n)
            /\ BytesAt(buf, eocd, 4) = <<80, 75, 5, 6>>
            /\ RdU16(buf, eocd + 8) = n
            /\ RdU16(buf, eocd + 10) = n
            /\ RdU32(buf, eocd + 12) = ZipDirectorySize(n)
            /\ RdU32(buf, eocd + 16) = cstart
            /\ RdU16(buf, eocd + 20) = 0

\* Witness of C8: a generated archive whose second local record does not
\* start at offset 0 and whose first name takes more bytes than code units.
ZipDirectoryOffsetsWitness ==
    /\ zipResult # NoBuffer
    /\ Len(zipFiles) = 2
    /\ Len(zipFiles[1].name) < ZipNameLen(1)
    /\ zipFiles[1].data # <<>>
    /\ zipFiles[2].name # zipFiles[1].name

(***************************************************************************)
(* trianglesToSTL as an operation on given inputs                          *)
(***************************************************************************)
MaxStlTriangles == 2

Vtx(x, y, z) == [x |-> x, y |-> y, z |-> z]

Tri(v1, v2, v3) == [v1 |-> v1, v2 |-> v2, v3 |-> v3]

\* 'HeroForge Export', 'HeroForge Character', 'HeroForge Base'
LabelExport == <<72, 101, 114, 111, 70, 111, 114, 103, 101, 32, 69, 120, 112, 111, 114, 116>>

LabelCharacter ==
    <<72, 101, 114, 111, 70, 111, 114, 103, 101, 32, 67, 104, 97, 114, 97, 99, 116, 101, 114>>

LabelBase == <<72, 101, 114, 111, 70, 111, 114, 103, 101, 32, 66, 97, 115, 101>>

\* A label of 81 characters, one more than the header holds.
LabelLong == [i \in 1..81 |-> 65 + (i % 26)]

StlLabels == {<<>>, LabelExport, LabelLong}

\* Triangles whose normal is exact in the fixed-point numbers: facing +z,
\* -z, +x and -y, one with collinear vertices and one with a repeated vertex
\* (both of zero area).  Coordinates are counted in halves.
StlTriangleSet ==
    { Tri(Vtx(0, 0, 5), Vtx(4, 0, 5), Vtx(0, 6, 5)),
      Tri(Vtx(0, 0, 5), Vtx(0, 6, 5), Vtx(4, 0, 5)),
      Tri(Vtx(-3, 1, 1), Vtx(-3, 199, 1), Vtx(-3, 1, 21)),
      Tri(Vtx(1, 7, -2), Vtx(1, 7, -198), Vtx(3, 7, -2)),
      Tri(Vtx(0, 0, 0), Vtx(2, 2, 2), Vtx(-4, -4, -4)),
      Tri(Vtx(9, 9, 9), Vtx(9, 9, 9), Vtx(1, 2, 3)) }

RECURSIVE SeqsUpTo(_, _)
SeqsUpTo(S, n) ==
    IF n = 0 THEN {<<>>}
    ELSE SeqsUpTo(S, n - 1)
         \cup {Append(s, x) : s \in {t \in SeqsUpTo(S, n - 1) : Len(t) = n - 1}, x \in S}

StlInit ==
    /\ WeightIdle
    /\ ResIdle
    /\ ZipIdle
    /\ HostIdle
    /\ TriIdle
    /\ ExIdle
    /\ BoneIdle
    /\ stlTriangles \in SeqsUpTo(StlTriangleSet, MaxStlTriangles)
    /\ stlHeaderText \in StlLabels
    /\ stlBuffer = NoBuffer

StlEncode ==
    /\ stlBuffer = NoBuffer
    /\ stlBuffer' = trianglesToSTL(stlTriangles, stlHeaderText)
    /\ UNCHANGED <<stlTriangles, stlHeaderText, zipVars, hostVars, triVars, exVars, boneVars, weightVars,
                   resVars>>

StlNext == StlEncode

SpecSTL == StlInit /\ [][StlNext]_vars

(***************************************************************************)
(* A reader of the binary STL format                                       *)
(***************************************************************************)
\* The float at offset p as <<TRUE, fixed-point number>>, or <<FALSE, 0>>
\* when the bits are no number that the fixed-point numbers hold exactly.
RdF32(buf, p) ==
    LET b0     == ByteAt(buf, p)
        b1     == ByteAt(buf, p + 1)
        b2     == ByteAt(buf, p + 2)
        b3     == ByteAt(buf, p + 3)
        biased == (b3 % 128) * 2 + (b2 \div 128)
        m      == 8388608 + (b2 % 128) * 65536 + b1 * 256 + b0
        sh     == 149 - biased
        sign   == IF b3 >= 128 THEN -1 ELSE 1
    IN  IF biased = 0 /\ m = 8388608 THEN <<TRUE, 0>>
        ELSE IF biased = 0 \/ sh > 23 \/ sh < -6 THEN <<FALSE, 0>>
        ELSE IF sh < 0 THEN <<TRUE, sign * m * Pow2(-sh)>>
        ELSE IF m % Pow2(sh) # 0 THEN <<FALSE, 0>>
        ELSE <<TRUE, sign * (m \div Pow2(sh))>>

RdVec(buf, p) == <<RdF32(buf, p), RdF32(buf, p + 4), RdF32(buf, p + 8)>>

Exactly(v) == <<<<TRUE, v.x>>, <<TRUE, v.y>>, <<TRUE, v.z>>>>

\* n is the unit vector along c, or the zero vector when c is zero
\* (n in fixed-point numbers, where 1.0 is the number 2).
IsUnitAlong(n, c) ==
    IF c.x = 0 /\ c.y = 0 /\ c.z = 0
    THEN n.x = 0 /\ n.y = 0 /\ n.z = 0
    ELSE /\ n.x * n.x + n.y * n.y + n.z * n.z = 4
         /\ n.y * c.z - n.z * c.y = 0
         /\ n.z * c.x - n.x * c.z = 0
         /\ n.x * c.y - n.y * c.x = 0
         /\ n.x * c.x + n.y * c.y + n.z * c.z > 0

\* (v2 - v1) x (v3 - v1)
RefCross(t) ==
    LET a == Vtx(t.v2.x - t.v1.x, t.v2.y - t.v1.y, t.v2.z - t.v1.z)
        b == Vtx(t.v3.x - t.v1.x, t.v3.y - t.v1.y, t.v3.z - t.v1.z)
    IN  Vtx(a.y * b.z - a.z * b.y, a.z * b.x - a.x * b.z, a.x * b.y - a.y * b.x)

StlRecordMatches(buf, p, t) ==
    /\ RdVec(buf, p + 12) = Exactly(t.v1)
    /\ RdVec(buf, p + 24) = Exactly(t.v2)
    /\ RdVec(buf, p + 36) = Exactly(t.v3)
    /\ \A i \in 1..3 : RdVec(buf, p)[i][1]
    /\ IsUnitAlong(Vtx(RdVec(buf, p)[1][2], RdVec(buf, p)[2][2], RdVec(buf, p)[3][2]),
                   RefCross(t))
    /\ ByteAt(buf, p + 48) = 0
    /\ ByteAt(buf, p + 49) = 0

\* C9: the buffer is 84 + 50 n bytes; bytes 0..79 are the label, cut to 80
\* bytes and padded with zeros; the little-endian word at 80 is n; the i-th
\* record, at 84 + 50 i, reads back as the unit normal (v2 - v1) x (v3 - v1)
\* (zero for a zero cross product), then v1, v2, v3 of the i-th triangle,
\* then two zero bytes.
StlLayout ==
    stlBuffer # NoBuffer =>
        /\ Len(stlBuffer) = 84 + 50 * Len(stlTriangles)
        /\ \A i \in 0..79 :
              ByteAt(stlBuffer, i)
                 = IF i < Len(stlHeaderText) THEN stlHeaderText[i + 1] ELSE 0
        /\ BytesAt(stlBuffer, 80, 4) = <<Len(stlTriangles), 0, 0, 0>>
        /\ \A i \in 1..Len(stlTriangles) :
              StlRecordMatches(stlBuffer, 84 + 50 * (i - 1), stlTriangles[i])

\* Witness of C9: an encoded list of two triangles, the first with a
\* non-zero normal and the second of zero area, under a label longer than
\* the header.
StlLayoutWitness ==
    /\ stlBuffer # NoBuffer
    /\ Len(stlTriangles) = 2
    /\ Len(stlHeaderText) > 80
    /\ RefCross(stlTriangles[1]) # Vtx(0, 0, 0)
    /\ RefCross(stlTriangles[2]) = Vtx(0, 0, 0)
    /\ stlTriangles[2].v1 # stlTriangles[2].v2

(***************************************************************************)
(* collectMeshes as a step of exportCharacter                              *)
(***************************************************************************)
\* const { characterMeshes, baseMeshes } = collectMeshes()
ExCollectMeshes ==
    /\ exPc = "collect"
    /\ characterMeshes' = collectMeshes(CK).characterMeshes
    /\ baseMeshes' = collectMeshes(CK).baseMeshes
    /\ console' = console \o collectMeshes(CK).console
    /\ exPc' = "branch"
    /\ UNCHANGED <<CK, options, charTriangles, baseTriangles, mergedTriangles, downloads,
                   zipVars, stlVars, triVars, boneVars, weightVars,
                   resVars>>

(***************************************************************************)
(* Scenes for the scene walk                                               *)
(***************************************************************************)
\* 'Pedestal'
NamePedestal == <<80, 101, 100, 101, 115, 116, 97, 108>>

\* 'BASE'
NameBaseUpper == <<66, 65, 83, 69>>

\* 'database'
NameDatabase == <<100, 97, 116, 97, 98, 97, 115, 101>>

\* 'facePads'
NameFacePads == <<102, 97, 99, 101, 80, 97, 100, 115>>

\* 'FacePads'
NameFacePadsUpper == <<70, 97, 99, 101, 80, 97, 100, 115>>

\* '_debugPass'
NameDebugPass == <<95, 100, 101, 98, 117, 103, 80, 97, 115, 115>>

\* 'GroundPlane'
NameGroundPlane == <<71, 114, 111, 117, 110, 100, 80, 108, 97, 110, 101>>

\* 'Shadow'
NameShadow == <<83, 104, 97, 100, 111, 119>>

\* 'floor'
NameFloor == <<102, 108, 111, 111, 114>>

\* 'Reflector2'
NameReflector == <<82, 101, 102, 108, 101, 99, 116, 111, 114, 50>>

\* ''
NameEmpty == <<>>

\* 'hand'
NameHand == <<104, 97, 110, 100>>

\* 'base_01'
SlotBase01 == <<98, 97, 115, 101, 95, 48, 49>>

\* '_hidden'
SlotHidden == <<95, 104, 105, 100, 100, 101, 110>>

\* 'OnPedestalA'
SlotPedestal == <<79, 110, 80, 101, 100, 101, 115, 116, 97, 108, 65>>

\* 'shadowSlot'
SlotShadow == <<115, 104, 97, 100, 111, 119, 83, 108, 111, 116>>

\* 'cloak'
SlotCloak == <<99, 108, 111, 97, 107>>

MeshNames ==
    { NameTorso, NamePedestal, NameBaseUpper, NameDatabase, NameFacePads, NameFacePadsUpper,
      NameDebugPass, NameGroundPlane, NameShadow, NameFloor, NameReflector, NameEmpty,
      NameHand }

SlotNames == { NameBody, SlotBase01, SlotHidden, SlotPedestal, SlotShadow, SlotCloak }

\* A geometry of one triangle.
OneTriangle ==
    Geometry("BufferGeometry", Some(<<<<0, 0, 0>>, <<2, 0, 0>>, <<0, 2, 0>>>>), None)

\* The ways a node can differ from a visible plain mesh of one triangle.
Kinds ==
    { "plain", "skinned", "skinnedOnly", "group", "invisible", "twoVertices", "noPosition",
      "noGeometry", "PlaneGeometry", "PlaneBufferGeometry" }

NodeOf(name, kind) ==
    LET m == PlainMesh(name, Some(OneTriangle))
    IN  CASE kind = "plain"       -> m
          [] kind = "skinned"     -> [m EXCEPT !.isSkinnedMesh = TRUE]
          [] kind = "skinnedOnly" -> [m EXCEPT !.isMesh = FALSE, !.isSkinnedMesh = TRUE]
          [] kind = "group"       -> [m EXCEPT !.isMesh = FALSE]
          [] kind = "invisible"   -> [m EXCEPT !.visible = FALSE]
          [] kind = "twoVertices" ->
                 [m EXCEPT !.geometry = Some(Geometry("BufferGeometry",
                                                      Some(<<<<0, 0, 0>>, <<2, 0, 0>>>>), None))]
          [] kind = "noPosition"  ->
                 [m EXCEPT !.geometry = Some(Geometry("BufferGeometry", None, None))]
          [] kind = "noGeometry"  -> [m EXCEPT !.geometry = None]
          [] OTHER                -> [m EXCEPT !.geometry = Some([OneTriangle EXCEPT !.type = kind])]

WithChildren(node, children) == [node EXCEPT !.children = children]

\* The scene of the example: slot "base_01" holds the mesh "Pedestal", slot
\* "body" the skinned mesh "Torso".
ExampleScene ==
    <<Entry(SlotBase01, Some(NodeOf(NamePedestal, "plain"))),
      Entry(NameBody, Some(NodeOf(NameTorso, "skinned")))>>

\* One slot with one node; one slot with a parent, a child and a grandchild;
\* two slots, the first possibly empty.
CollectScenes ==
    { <<Entry(slot, Some(NodeOf(name, kind)))>> :
        slot \in SlotNames, name \in MeshNames, kind \in Kinds }
    \cup { <<Entry(slot, Some(WithChildren(NodeOf(top, topKind),
               <<WithChildren(NodeOf(mid, "plain"), <<NodeOf(low, "plain")>>),
                 NodeOf(NameHand, "skinned")>>)))>> :
             slot \in {NameBody, SlotBase01},
             top \in {NameTorso, NameFacePads}, topKind \in {"plain", "group", "invisible"},
             mid \in {NameHand, NameFacePads, NameDebugPass, NameShadow},
             low \in {NameHand, NamePedestal, NameFacePads} }
    \cup { <<Entry(first, m), Entry(second, Some(NodeOf(NameTorso, "skinned")))>> :
             first \in {SlotBase01, SlotHidden},
             m \in {None, Some(NodeOf(NamePedestal, "plain"))},
             second \in {NameBody, SlotPedestal} }

CollectInit ==
    /\ WeightIdle
    /\ ResIdle
    /\ ZipIdle
    /\ StlIdle
    /\ TriIdle
    /\ BoneIdle
    /\ console = <<>>
    /\ CK \in { Host(meshes) : meshes \in CollectScenes }
              \cup { [Host(ExampleScene) EXCEPT !.display = d] : d \in {"absent", "noMeshes"} }
    /\ exPc = "collect"
    /\ options = [filename |-> <<>>, scale |-> 0, separateBase |-> FALSE]
    /\ characterMeshes = <<>>
    /\ baseMeshes = <<>>
    /\ charTriangles = <<>>
    /\ baseTriangles = <<>>
    /\ mergedTriangles = <<>>
    /\ downloads = <<>>

CollectNext == ExCollectMeshes

SpecCollect == CollectInit /\ [][CollectNext]_vars

(***************************************************************************)
(* What the scene walk collects                                            *)
(***************************************************************************)
Range(seq) == { seq[i] : i \in 1..Len(seq) }

\* The places of a node and of all its descendants.
RECURSIVE pathsBelow(_, _)
pathsBelow(node, path) ==
    {path} \cup UNION { pathsBelow(node.children[k], Append(path, k)) :
                          k \in 1..Len(node.children) }

\* Every node of the scene forest: the slot roots and their descendants.
ScenePaths(meshes) ==
    UNION { IF meshes[k].mesh = None THEN {} ELSE pathsBelow(meshes[k].mesh[1], <<k>>) :
              k \in 1..Len(meshes) }

SlotOf(meshes, path) == meshes[Head(path)].slot

\* The nodes collectMeshes has put in either of its two sequences.
Collected == Range(characterMeshes) \cup Range(baseMeshes)

ContainsNoCase(s, word) == includes(toLowerCase(s), word)

SceneryWords == {StrGround, StrFloor, StrPlane, StrShadow, StrReflector}

\* The conditions on a node and its slot, one by one.
Qualifies(node, slot) ==
    /\ node.isMesh \/ node.isSkinnedMesh
    /\ node.visible
    /\ ~startsWith(slot, StrUnderscore)
    /\ node.name \notin {StrFacePads, StrDebugPass}
    /\ node.geometry # None
    /\ node.geometry[1].position # None
    /\ Len(node.geometry[1].position[1]) >= 3
    /\ node.geometry[1].type \notin {"PlaneGeometry", "PlaneBufferGeometry"}
    /\ \A word \in SceneryWords :
          ~ContainsNoCase(node.name, word) /\ ~ContainsNoCase(slot, word)

\* No node between the slot root and the node, both excluded, is named
\* "facePads" or "_debugPass".
BelowNoSentinel(meshes, path) ==
    \A n \in 2..(Len(path) - 1) :
        MeshAt(meshes, SubSeq(path, 1, n)).name \notin {StrFacePads, StrDebugPass}

\* C4 as stated: a node of the scene forest, slot root or descendant at any
\* depth, is in the output of collectMeshes if and only if the conditions on
\* the node itself and on its slot all hold, whatever its ancestors are named.
IncludedByNodeAndSlotOnly ==
    (exPc = "branch" /\ CK.display = "present") =>
        \A path \in ScenePaths(CK.meshes) :
            (path \in Collected)
            <=> Qualifies(MeshAt(CK.meshes, path), SlotOf(CK.meshes, path))

\* C4, amended: a node of the scene forest is in the output of collectMeshes
\* if and only if the conditions on the node itself and on its slot all hold
\* and no ancestor of it other than the slot root is named "facePads" or
\* "_debugPass": the walk does not descend into a child of either name, so
\* nothing below such a child is collected.
IncludedUnlessBelowSentinel ==
    (exPc = "branch" /\ CK.display = "present") =>
        \A path \in ScenePaths(CK.meshes) :
            (path \in Collected)
            <=> (/\ Qualifies(MeshAt(CK.meshes, path), SlotOf(CK.meshes, path))
                 /\ BelowNoSentinel(CK.meshes, path))

\* The walk is done; a grandchild that meets every condition itself lies
\* below a child named "facePads" and is not collected, while its parent's
\* sibling and the slot root are.
IncludedUnlessBelowSentinelWitness ==
    /\ exPc = "branch"
    /\ CK.display = "present"
    /\ Len(CK.meshes) = 1
    /\ <<1, 1, 1>> \in ScenePaths(CK.meshes)
    /\ Qualifies(MeshAt(CK.meshes, <<1, 1, 1>>), SlotOf(CK.meshes, <<1>>))
    /\ MeshAt(CK.meshes, <<1, 1>>).name = StrFacePads
    /\ <<1, 1, 1>> \notin Collected
    /\ <<1, 2>> \in Collected
    /\ <<1>> \in Collected

\* The slot's name or the node's own name, compared without regard to case,
\* starts with "base" or contains "pedestal".
BaseNamed(slot, name) ==
    \E s \in {slot, name} :
        startsWith(toLowerCase(s), StrBase) \/ ContainsNoCase(s, StrPedestal)

\* C3: every node collectMeshes collects is in exactly one of the two
\* sequences, once: in baseMeshes if and only if its slot name or its own
\* name, compared case-insensitively, starts with "base" or contains
\* "pedestal", and in characterMeshes otherwise; slot "base_01" with mesh
\* "Pedestal" and slot "body" with skinned mesh "Torso" give
\* baseMeshes = [Pedestal] and characterMeshes = [Torso].
RoutedByName ==
    exPc = "branch" =>
        /\ Cardinality(Collected) = Len(characterMeshes) + Len(baseMeshes)
        /\ \A path \in Collected :
              (path \in Range(baseMeshes))
              <=> BaseNamed(SlotOf(CK.meshes, path), MeshAt(CK.meshes, path).name)
        /\ \A path \in Collected :
              (path \in Range(characterMeshes))
              <=> ~BaseNamed(SlotOf(CK.meshes, path), MeshAt(CK.meshes, path).name)
        /\ (CK.display = "present" /\ CK.meshes = ExampleScene)
              => (baseMeshes = <<<<1>>>> /\ characterMeshes = <<<<2>>>>)

\* The walk over the example scene is done: Pedestal is the one base mesh
\* and Torso the one character mesh.
RoutedByNameWitness ==
    /\ exPc = "branch"
    /\ CK.display = "present"
    /\ CK.meshes = ExampleScene
    /\ baseMeshes = <<<<1>>>>
    /\ characterMeshes = <<<<2>>>>

(***************************************************************************)
(* exportCharacter                                                         *)
(***************************************************************************)
\* 'heroforge-character', the default of options.filename
DefaultFilename == <<104, 101, 114, 111, 102, 111, 114, 103, 101, 45, 99, 104, 97, 114, 97, 99, 116, 101, 114>>

\* The default of options.scale.
DefaultScale == 10

\* '-character.stl'
SuffixCharacter == <<45, 99, 104, 97, 114, 97, 99, 116, 101, 114, 46, 115, 116, 108>>

\* '-base.stl'
SuffixBase == <<45, 98, 97, 115, 101, 46, 115, 116, 108>>

\* '.zip'
SuffixZip == <<46, 122, 105, 112>>

\* '.stl'
SuffixStl == <<46, 115, 116, 108>>

\* The destructuring of the options with its defaults.
optionsOf(opts) ==
    [filename     |-> IF IsSome(opts.filename) THEN opts.filename[1] ELSE DefaultFilename,
     scale        |-> IF IsSome(opts.scale) THEN opts.scale[1] ELSE DefaultScale,
     separateBase |-> IF IsSome(opts.separateBase) THEN opts.separateBase[1] ELSE TRUE]

\* A node of the scene, its descendants and the bones of their skeletons
\* after scene.updateMatrixWorld(true): bones are nodes of the scene.
RECURSIVE updateInScene(_)
updateInScene(node) ==
    [node EXCEPT
        !.matrixWorld = node.pose,
        !.children = [i \in 1..Len(node.children) |-> updateInScene(node.children[i])],
        !.skeleton = IF IsSome(node.skeleton) THEN Some(updateBones(node.skeleton[1]))
                     ELSE node.skeleton]

\* CK.scene.updateMatrixWorld(true): the display's meshes, their descendants
\* and their bones are objects of the scene.
sceneUpdate(meshes) ==
    [k \in 1..Len(meshes) |->
        IF IsSome(meshes[k].mesh)
        THEN [meshes[k] EXCEPT !.mesh = Some(updateInScene(@[1]))]
        ELSE meshes[k]]

\* downloadFile(buffer, filename): what the browser is given to save.
downloadFile(buffer, filename) == [buffer |-> buffer, filename |-> filename]

\* Entry of exportCharacter, up to the scene update.
ExStart(opts) ==
    /\ exPc = "idle"
    /\ options' = optionsOf(opts)
    /\ IF ~CK.defined
       THEN /\ console' = console \o <<"log: Starting HeroForge character export...",
                                       "error: CK or RK not found.">>
            /\ exPc' = "done"
            /\ UNCHANGED CK
       ELSE /\ console' = Append(console, "log: Starting HeroForge character export...")
            /\ CK' = IF CK.hasScene THEN [CK EXCEPT !.meshes = sceneUpdate(@)] ELSE CK
            /\ exPc' = "collect"
    /\ UNCHANGED <<characterMeshes, baseMeshes, charTriangles, baseTriangles, mergedTriangles,
                   downloads, zipVars, stlVars, triVars, boneVars, weightVars,
                   resVars>>

branchOf_NoEmptyCheck(separateBase, nCharacter, nBase) ==
    IF separateBase /\ nBase > 0
    THEN (IF nCharacter > 0 THEN "character" ELSE "base")
    ELSE "merged"

branchOf_AlwaysCharacter(separateBase, nCharacter, nBase) ==
    IF nCharacter = 0 /\ nBase = 0 THEN "done"
    ELSE IF separateBase /\ nBase > 0 THEN "character"
    ELSE "merged"

\* Where exportCharacter goes once the meshes are collected: it returns, it
\* fills an archive starting with the character or with the base, or it
\* writes one merged file.
branchOf(separateBase, nCharacter, nBase) ==
    IF nCharacter = 0 /\ nBase = 0 THEN "done"
    ELSE IF separateBase /\ nBase > 0
         THEN (IF nCharacter > 0 THEN "character" ELSE "base")
    ELSE "merged"

\* The check for an empty scene and the choice of the output; in separate
\* mode, new SimpleZip().
ExBranch ==
    /\ exPc = "branch"
    /\ exPc' = branchOf(options.separateBase, Len(characterMeshes), Len(baseMeshes))
    /\ console' = Append(console, IF exPc' = "done" THEN "error: No meshes found."
                                  ELSE "log: Applying bone transforms...")
    /\ zipFiles' = IF exPc' \in {"character", "base"} THEN <<>> ELSE zipFiles
    /\ zipResult' = IF exPc' \in {"character", "base"} THEN NoBuffer ELSE zipResult
    /\ UNCHANGED <<CK, options, characterMeshes, baseMeshes, charTriangles, baseTriangles,
                   mergedTriangles, downloads, stlVars, triVars, boneVars, weightVars,
                   resVars>>

\* The meshes handed to collectTriangles at each of the three call sites.
meshesFor(pc, character, base) ==
    CASE pc = "character" -> character
      [] pc = "base"      -> base
      [] OTHER            -> character \o base

\* Entry of collectTriangles(meshes).
TriCall ==
    /\ exPc \in {"character", "base", "merged"}
    /\ triPc = "idle"
    /\ triMeshes' = meshesFor(exPc, characterMeshes, baseMeshes)
    /\ triPc' = "mesh"
    /\ triMeshIdx' = 0
    /\ triGeom' = [positions |-> <<>>, indices |-> None]
    /\ triI' = 0
    /\ allTriangles' = <<>>
    /\ skippedTriangles' = 0
    /\ UNCHANGED <<hostVars, vertexHeap, triScale, zipVars, stlVars, exVars, boneVars, weightVars,
                   resVars>>

\* trianglesToSTL on the transformed list and zip.addFile for the character.
ExCharacterDone ==
    /\ exPc = "character"
    /\ triPc = "transformed"
    /\ charTriangles' = allTriangles
    /\ stlTriangles' = Deref(allTriangles, vertexHeap)
    /\ stlHeaderText' = LabelCharacter
    /\ stlBuffer' = trianglesToSTL(Deref(allTriangles, vertexHeap), LabelCharacter)
    /\ zipFiles' = Append(zipFiles, [name |-> options.filename \o SuffixCharacter,
                                     data |-> stlBuffer'])
    /\ console' = Append(console, "log: Character triangles")
    /\ triPc' = "idle"
    /\ exPc' = "base"
    /\ UNCHANGED <<CK, zipResult, vertexHeap, triMeshes, triScale, triMeshIdx, triGeom, triI,
                   allTriangles, skippedTriangles, options, characterMeshes, baseMeshes,
                   baseTriangles, mergedTriangles, downloads, boneVars, weightVars,
                   resVars>>

\* trianglesToSTL and zip.addFile for the base, then zip.generate() and
\* downloadFile.
ExBaseDone ==
    /\ exPc = "base"
    /\ triPc = "transformed"
    /\ baseTriangles' = allTriangles
    /\ stlTriangles' = Deref(allTriangles, vertexHeap)
    /\ stlHeaderText' = LabelBase
    /\ stlBuffer' = trianglesToSTL(Deref(allTriangles, vertexHeap), LabelBase)
    /\ zipFiles' = Append(zipFiles, [name |-> options.filename \o SuffixBase,
                                     data |-> stlBuffer'])
    /\ zipResult' = generate(zipFiles')
    /\ downloads' = Append(downloads, downloadFile(zipResult', options.filename \o SuffixZip))
    /\ console' = console \o <<"log: Base triangles", "log: Export complete!">>
    /\ triPc' = "idle"
    /\ exPc' = "done"
    /\ UNCHANGED <<CK, vertexHeap, triMeshes, triScale, triMeshIdx, triGeom, triI,
                   allTriangles, skippedTriangles, options, characterMeshes, baseMeshes,
                   charTriangles, mergedTriangles, boneVars, weightVars,
                   resVars>>

\* trianglesToSTL with the default header and downloadFile for one file.
ExMergedDone ==
    /\ exPc = "merged"
    /\ triPc = "transformed"
    /\ mergedTriangles' = allTriangles
    /\ stlTriangles' = Deref(allTriangles, vertexHeap)
    /\ stlHeaderText' = LabelExport
    /\ stlBuffer' = trianglesToSTL(Deref(allTriangles, vertexHeap), LabelExport)
    /\ downloads' = Append(downloads, downloadFile(stlBuffer', options.filename \o SuffixStl))
    /\ console' = console \o <<"log: Total triangles", "log: Export complete!">>
    /\ triPc' = "idle"
    /\ exPc' = "done"
    /\ UNCHANGED <<CK, zipVars, vertexHeap, triMeshes, triScale, triMeshIdx, triGeom, triI,
                   allTriangles, skippedTriangles, options, characterMeshes, baseMeshes,
                   charTriangles, baseTriangles, boneVars, weightVars,
                   resVars>>

(***************************************************************************)
(* Scenes and options for exportCharacter                                  *)
(***************************************************************************)
\* 'héro'
NameHero == <<104, 233, 114, 111>>

\* A character mesh of two triangles, moved down by a world transform that
\* its cached matrixWorld does not show yet.
ExTorso ==
    [PlainMesh(NameTorso,
               Some(Geometry("BufferGeometry",
                             Some(<<<<0, 0, 0>>, <<4, 0, 0>>, <<0, 2, 0>>, <<4, 2, 0>>>>),
                             Some(<<0, 1, 2, 1, 3, 2>>))))
       EXCEPT !.pose = TranslationMatrix(0, -6, 0)]

\* A skinned mesh of one triangle on a skeleton of one bone; its second
\* vertex names bone 5, which the skeleton does not have.
ExHand ==
    [PlainMesh(NameHand,
               Some([Geometry("BufferGeometry",
                              Some(<<<<0, 0, 0>>, <<2, 0, 0>>, <<0, 2, 0>>>>), None)
                       EXCEPT !.skin = <<Some(<<<<0, 2, 0, 0>>, <<10, 2, 0, 0>>, <<0, 2, 0, 0>>>>),
                                         None, None, None>>]))
       EXCEPT !.isSkinnedMesh = TRUE,
              !.skeleton = Some([bones |-> Some(<<Some([matrixWorld |-> Some(IdentityMatrix),
                                                         getMatrixWorld |-> None,
                                                         pose |-> TranslationMatrix(0, 8, 0)])>>),
                                 boneInverses |-> Some(<<Some(IdentityMatrix)>>),
                                 hasUpdate |-> TRUE, boneMatrices |-> None])]

\* A mesh with one triangle to keep and one to discard, a skinned child, and
\* a child the walk does not descend into.
ExArmoured ==
    WithChildren(
        PlainMesh(NameTorso,
                  Some(Geometry("BufferGeometry",
                                Some(<<<<0, 0, 0>>, <<4, 0, 0>>, <<0, 2, 0>>, <<200, 0, 0>>>>),
                                Some(<<0, 1, 2, 0, 3, 2>>)))),
        <<ExHand, WithChildren(NodeOf(NameFacePads, "plain"), <<NodeOf(NameHand, "plain")>>)>>)

\* A mesh all of whose triangles are discarded.
ExBroken ==
    PlainMesh(NameHand,
              Some(Geometry("BufferGeometry",
                            Some(<<<<0, 0, 0>>, <<4, 0, 0>>, <<0, -200, 0>>>>), None)))

ExPedestal ==
    PlainMesh(NamePedestal,
              Some(Geometry("BufferGeometry",
                            Some(<<<<0, -8, 0>>, <<6, -8, 0>>, <<0, -8, 6>>>>), None)))

\* A base mesh of four vertices and no index buffer: one triangle and the
\* start of a second.
ExSlab ==
    PlainMesh(NameBaseUpper,
              Some(Geometry("BufferGeometry",
                            Some(<<<<0, 2, 0>>, <<2, 2, 0>>, <<0, 2, 2>>, <<2, 2, 2>>>>), None)))

ExCharacterSlots ==
    { <<>>,
      <<Entry(NameBody, Some(ExTorso))>>,
      <<Entry(NameBody, Some(ExArmoured))>>,
      <<Entry(SlotCloak, Some(ExBroken))>> }

ExBaseSlots ==
    { <<>>,
      <<Entry(SlotBase01, Some(ExPedestal))>>,
      <<Entry(SlotCloak, Some(ExSlab)), Entry(SlotHidden, Some(ExPedestal))>> }

\* Every scene also has a slot whose mesh does not qualify.
ExScenes ==
    { character \o <<Entry(SlotShadow, Some(NodeOf(NameShadow, "plain")))>> \o base :
        character \in ExCharacterSlots, base \in ExBaseSlots }

ExHosts ==
    { Host(meshes) : meshes \in ExScenes }
    \cup { [Host(<<Entry(NameBody, Some(ExTorso))>>) EXCEPT !.hasScene = FALSE],
           [Host(<<>>) EXCEPT !.display = "absent"],
           [Host(<<>>) EXCEPT !.display = "noMeshes"],
           [defined |-> FALSE, hasScene |-> FALSE, display |-> "absent", meshes |-> <<>>] }

ExOptions ==
    [filename : {None, Some(NameHero)},
     scale : {None, Some(1), Some(-3), Some(0)},
     separateBase : {None, Some(FALSE)}]

Init ==
    /\ WeightIdle
    /\ ResIdle
    /\ ZipIdle
    /\ StlIdle
    /\ TriIdle
    /\ ExIdle
    /\ BoneIdle
    /\ console = <<>>
    /\ CK \in ExHosts

Next ==
    \/ \E opts \in ExOptions : ExStart(opts)
    \/ ExCollectMeshes
    \/ ExBranch
    \/ TriCall
    \/ TriNextMesh
    \/ TriAddTriangle
    \/ TriMeshDone
    \/ TriReturn
    \/ TriTransform(options.scale)
    \/ ExCharacterDone
    \/ ExBaseDone
    \/ ExMergedDone

Spec == Init /\ [][Next]_vars

(***************************************************************************)
(* What exportCharacter hands to the browser                               *)
(***************************************************************************)
\* The buffer has the size of a binary STL file with the number of triangles
\* its count field gives.
IsStl(buf) == Len(buf) >= 84 /\ Len(buf) = 84 + 50 * RdU32(buf, 80)

\* exportCharacter has returned and at least one mesh qualified.
ExportedSomething == exPc = "done" /\ (characterMeshes # <<>> \/ baseMeshes # <<>>)

\* The one saved buffer is a binary STL file named {filename}.stl.
SavedSingleFile ==
    /\ downloads[1].filename = options.filename \o SuffixStl
    /\ IsStl(downloads[1].buffer)

\* The one saved buffer is an archive named {filename}.zip whose entries, in
\* order, have the given names and are binary STL files.
SavedArchiveOf(names) ==
    /\ downloads[1].filename = options.filename \o SuffixZip
    /\ ZipCount(downloads[1].buffer) = Len(names)
    /\ \A k \in 1..Len(names) :
          /\ ZipRead(downloads[1].buffer)[k].centralName = names[k]
          /\ ZipRead(downloads[1].buffer)[k].localName = names[k]
          /\ IsStl(ZipRead(downloads[1].buffer)[k].data)

\* C1 as stated: when at least one mesh qualifies exactly one buffer is
\* saved; in separate mode with at least one base mesh it is the archive
\* {filename}.zip with the two entries {filename}-character.stl and
\* {filename}-base.stl; otherwise it is the single file {filename}.stl.
OutputAsStated ==
    ExportedSomething =>
        /\ Len(downloads) = 1
        /\ IF options.separateBase /\ baseMeshes # <<>>
           THEN SavedArchiveOf(<<options.filename \o SuffixCharacter,
                                 options.filename \o SuffixBase>>)
           ELSE SavedSingleFile

\* C1, amended: when at least one mesh qualifies exactly one buffer is saved;
\* in separate mode with at least one base mesh it is the archive
\* {filename}.zip, which holds {filename}-character.stl followed by
\* {filename}-base.stl when at least one character mesh qualifies and holds
\* {filename}-base.stl alone when none does; in merged mode, or in separate
\* mode with no base mesh, it is the single file {filename}.stl.
Output ==
    ExportedSomething =>
        /\ Len(downloads) = 1
        /\ IF options.separateBase /\ baseMeshes # <<>>
           THEN SavedArchiveOf(IF characterMeshes # <<>>
                               THEN <<options.filename \o SuffixCharacter,
                                      options.filename \o SuffixBase>>
                               ELSE <<options.filename \o SuffixBase>>)
           ELSE SavedSingleFile

\* An export in separate mode of a scene with base meshes and no character
\* mesh has saved an archive of one entry.
OutputWitness ==
    /\ exPc = "done"
    /\ options.separateBase
    /\ characterMeshes = <<>>
    /\ baseMeshes # <<>>
    /\ Len(downloads) = 1
    /\ ZipCount(downloads[1].buffer) = 1
    /\ ZipRead(downloads[1].buffer)[1].centralName = options.filename \o SuffixBase

\* C2: when the scene walk yields no qualifying mesh, also when the active
\* display or its slot mapping is absent, exportCharacter reports it and
\* returns: no triangle list, no STL buffer and no archive has been built and
\* nothing has been saved.
NothingFromEmptyScene ==
    (exPc = "done" /\ CK.defined /\ characterMeshes = <<>> /\ baseMeshes = <<>>) =>
        /\ "error: No meshes found." \in Range(console)
        /\ CK.display # "present" => "error: No active display found." \in Range(console)
        /\ downloads = <<>>
        /\ triPc = "idle" /\ allTriangles = <<>> /\ vertexHeap = <<>>
        /\ charTriangles = <<>> /\ baseTriangles = <<>> /\ mergedTriangles = <<>>
        /\ stlBuffer = NoBuffer
        /\ zipFiles = <<>> /\ zipResult = NoBuffer

\* An export of a scene that has meshes, none of which qualifies, has
\* reported it and returned.
NothingFromEmptySceneWitness ==
    /\ exPc = "done"
    /\ CK.defined
    /\ CK.display = "present"
    /\ CK.meshes # <<>>
    /\ characterMeshes = <<>>
    /\ baseMeshes = <<>>
    /\ "error: No meshes found." \in Range(console)
    /\ downloads = <<>>

(***************************************************************************)
(* The ground clearance after transformTriangles                           *)
(***************************************************************************)
\* The z coordinates of all vertices of a triangle list.
ZsOf(triangles) ==
    UNION { { vertexHeap[triangles[k].v1].z, vertexHeap[triangles[k].v2].z,
              vertexHeap[triangles[k].v3].z } : k \in 1..Len(triangles) }

\* The minimum z of a non-empty list is 2.5, the fixed-point number 5.
OnGround(triangles) ==
    triangles # <<>> => \A z \in ZsOf(triangles) : z >= 5 /\ 5 \in ZsOf(triangles)

\* C6: after transformTriangles the minimum z over all vertices of a
\* non-empty list is 2.5, for every scale factor; in separate mode it is so
\* for the character list and for the base list, each transformed on its
\* own, and stays so for the character list when the base list is
\* transformed after it.
GroundClearance ==
    /\ triPc = "transformed" => OnGround(allTriangles)
    /\ OnGround(charTriangles)
    /\ OnGround(baseTriangles)
    /\ OnGround(mergedTriangles)

\* An export in separate mode with a negative scale factor has transformed a
\* character list and a base list, and each has its lowest vertex at 2.5.
GroundClearanceWitness ==
    /\ exPc = "done"
    /\ options.scale = -3
    /\ charTriangles # <<>>
    /\ baseTriangles # <<>>
    /\ 5 \in ZsOf(charTriangles)
    /\ 5 \in ZsOf(baseTriangles)

(***************************************************************************)
(* getBoneMatrix and skinVertexWithPosition called on a skeleton           *)
(***************************************************************************)
\* The largest number of bones, and of bind-pose inverses, of a skeleton.
MaxBones == 2

\* A bone's world transform: a move along x (cached), along y (computed on
\* request).
BoneWorldCached == TranslationMatrix(2, 0, 0)

BoneWorldComputed == TranslationMatrix(0, 4, 0)

\* A bind-pose inverse that does not commute with the world transforms.
BoneInverse == <<2, 0, 0, 0,  0, 1, 0, 0,  0, 0, 1, 0,  0, 0, -2, 1>>

\* An entry of skeleton.bones: missing, a bone with a cached world transform,
\* one that computes it on request, one that has neither.
BoneEntries ==
    { None,
      Some([matrixWorld |-> Some(BoneWorldCached), getMatrixWorld |-> None,
            pose |-> BoneWorldCached]),
      Some([matrixWorld |-> None, getMatrixWorld |-> Some(BoneWorldComputed),
            pose |-> BoneWorldComputed]),
      Some([matrixWorld |-> None, getMatrixWorld |-> None, pose |-> BoneWorldCached]) }

Skeletons ==
    [bones : {None} \cup { Some(s) : s \in SeqsUpTo(BoneEntries, MaxBones) },
     boneInverses : {None} \cup { Some(s) : s \in SeqsUpTo({None, Some(BoneInverse)}, MaxBones) },
     hasUpdate : {TRUE}, boneMatrices : {None}]

\* The bone indices tried: from below the range to beyond it.
BoneIndices == (-1)..(MaxBones + 1)

\* The vertex that is skinned.
BonePosition == [x |-> 2, y |-> 4, z |-> 6]

\* A skinned mesh of one vertex bound with weight 1 to the bone boneIndex.
BoneMesh(skeleton, boneIndex) ==
    [PlainMesh(NameHand,
               Some([Geometry("BufferGeometry", Some(<<<<2, 4, 6>>>>), None)
                       EXCEPT !.skin = <<Some(<<<<ToFixed(boneIndex), ToFixed(1), 0, 0>>>>),
                                         None, None, None>>]))
       EXCEPT !.isSkinnedMesh = TRUE, !.skeleton = Some(skeleton)]

BoneInit ==
    /\ WeightIdle
    /\ ResIdle
    /\ ZipIdle
    /\ StlIdle
    /\ HostIdle
    /\ TriIdle
    /\ ExIdle
    /\ boneSkeleton \in { Some(skeleton) : skeleton \in Skeletons }
    /\ boneCall = None

\* getBoneMatrix(skeleton, boneIndex)
BoneGetMatrix(boneIndex) ==
    /\ boneCall' = Some([op |-> "getBoneMatrix", boneIndex |-> boneIndex,
                         result |-> getBoneMatrix(boneSkeleton[1], boneIndex)])
    /\ UNCHANGED <<boneSkeleton, zipVars, stlVars, hostVars, triVars, exVars, weightVars,
                   resVars>>

\* skinVertexWithPosition(mesh, 0, x, y, z) for a vertex bound to boneIndex.
BoneSkinVertex(boneIndex) ==
    /\ boneCall' = Some([op |-> "skinVertexWithPosition", boneIndex |-> boneIndex,
                         result |-> skinVertexWithPosition(
                                        BoneMesh(boneSkeleton[1], boneIndex), 0,
                                        BonePosition.x, BonePosition.y, BonePosition.z)])
    /\ UNCHANGED <<boneSkeleton, zipVars, stlVars, hostVars, triVars, exVars, weightVars,
                   resVars>>

BoneNext ==
    \/ \E boneIndex \in BoneIndices : BoneGetMatrix(boneIndex)
    \/ \E boneIndex \in BoneIndices : BoneSkinVertex(boneIndex)

SpecBone == BoneInit /\ [][BoneNext]_vars

(***************************************************************************)
(* What getBoneMatrix resolves a bone index to                             *)
(***************************************************************************)
\* The index is one of skeleton.bones.
BoneInRange(skeleton, i) ==
    skeleton.bones # None /\ i >= 0 /\ i <= Len(skeleton.bones[1]) - 1

\* In range, and neither the bone nor its bind-pose inverse is missing.
BoneResolvable(skeleton, i) ==
    /\ BoneInRange(skeleton, i)
    /\ skeleton.bones[1][i + 1] # None
    /\ skeleton.boneInverses # None
    /\ i + 1 <= Len(skeleton.boneInverses[1])
    /\ skeleton.boneInverses[1][i + 1] # None

\* The world transform of a bone, if it has one.
BoneWorld(bone) == IF bone.matrixWorld # None THEN bone.matrixWorld ELSE bone.getMatrixWorld

\* The transform the index stands for: world transform x bind-pose inverse,
\* or the identity.
BoneTransform(skeleton, i) ==
    IF BoneResolvable(skeleton, i) /\ BoneWorld(skeleton.bones[1][i + 1][1]) # None
    THEN MatrixMultiply(BoneWorld(skeleton.bones[1][i + 1][1])[1],
                        skeleton.boneInverses[1][i + 1][1])
    ELSE IdentityMatrix

\* C10: getBoneMatrix returns a transform for every skeleton and index: the
\* identity whenever the index is negative or beyond the last bone, the bones
\* are absent, or the bone or its bind-pose inverse at the index is missing,
\* and (bone world transform) x (bind-pose inverse) only when the index is in
\* range and both are present; a vertex bound to an index that does not
\* resolve is skinned with the identity and the call returns.
BoneIndexResolution ==
    boneCall # None =>
        IF boneCall[1].op = "getBoneMatrix"
        THEN /\ Len(boneCall[1].result) = 16
             /\ ~BoneResolvable(boneSkeleton[1], boneCall[1].boneIndex)
                   => boneCall[1].result = IdentityMatrix
             /\ boneCall[1].result # IdentityMatrix
                   => BoneResolvable(boneSkeleton[1], boneCall[1].boneIndex)
             /\ boneCall[1].result = BoneTransform(boneSkeleton[1], boneCall[1].boneIndex)
        ELSE /\ boneCall[1].result
                  = ApplyMatrix4(BonePosition,
                                 BoneTransform(boneSkeleton[1], boneCall[1].boneIndex))
             /\ ~BoneResolvable(boneSkeleton[1], boneCall[1].boneIndex)
                   => boneCall[1].result = BonePosition

\* getBoneMatrix was called with the index just beyond the last bone of a
\* skeleton whose last bone and inverse are present, and returned the
\* identity.
BoneIndexResolutionWitness ==
    /\ boneCall # None
    /\ boneCall[1].op = "getBoneMatrix"
    /\ boneSkeleton[1].bones # None
    /\ boneCall[1].boneIndex = Len(boneSkeleton[1].bones[1])
    /\ boneCall[1].boneIndex >= 1
    /\ BoneResolvable(boneSkeleton[1], boneCall[1].boneIndex - 1)
    /\ BoneTransform(boneSkeleton[1], boneCall[1].boneIndex - 1) # IdentityMatrix
    /\ boneCall[1].result = IdentityMatrix

(***************************************************************************)
(* What an export run changes in the scene                                 *)
(***************************************************************************)
\* A bone without its cached world transform.
BoneWithoutCache(bone) ==
    IF IsSome(bone) THEN Some([bone[1] EXCEPT !.matrixWorld = None]) ELSE None

\* A skeleton without the cached world transforms of its bones and without
\* its bone matrices.
SkeletonWithoutCaches(skeleton) ==
    [skeleton EXCEPT
        !.bones = IF IsSome(@)
                  THEN Some([i \in 1..Len(@[1]) |-> BoneWithoutCache(@[1][i])])
                  ELSE None,
        !.boneMatrices = None]

\* A node and its descendants without their cached world transforms: name,
\* visibility, geometry buffers, pose, bind matrices, bones' poses, bind-pose
\* inverses and the hierarchy remain.
RECURSIVE WithoutCaches(_)
WithoutCaches(mesh) ==
    [mesh EXCEPT
        !.matrixWorld = IdentityMatrix,
        !.children = [i \in 1..Len(mesh.children) |-> WithoutCaches(mesh.children[i])],
        !.skeleton = IF IsSome(@) THEN Some(SkeletonWithoutCaches(@[1])) ELSE None]

SceneWithoutCaches(host) ==
    [host EXCEPT
        !.meshes = [k \in 1..Len(host.meshes) |->
                      IF IsSome(host.meshes[k].mesh)
                      THEN [host.meshes[k] EXCEPT !.mesh = Some(WithoutCaches(@[1]))]
                      ELSE host.meshes[k]]]

\* The cached world transform of every node of the scene, by path.
CachedAt(host, path) == MeshAt(host.meshes, path).matrixWorld

\* C11 as stated: no step of an export run changes the scene, so the scene
\* after the run equals the scene before it.
SceneNeverChanged == [][CK' = CK]_vars

\* C11, amended: a step of an export run changes nothing in the scene but
\* cached world transforms (of nodes and of bones) and the skeleton's bone
\* matrices, which the forced updates refresh; a node's cached world
\* transform after a step is the one before it or the node's current pose.
SceneChangedInCachesOnlyStep ==
    /\ SceneWithoutCaches(CK') = SceneWithoutCaches(CK)
    /\ \A path \in ScenePaths(CK.meshes) :
          CachedAt(CK', path) \in {CachedAt(CK, path), MeshAt(CK.meshes, path).pose}

SceneChangedInCachesOnly == [][SceneChangedInCachesOnlyStep]_vars

\* An export that saved a file and left the scene in a state that is none of
\* the scenes a run starts from.
SceneChangedInCachesOnlyWitness ==
    /\ exPc = "done"
    /\ downloads # <<>>
    /\ CK \notin ExHosts

(***************************************************************************)
(* decodeWeight called on encoded weights                                  *)
(***************************************************************************)
\* The encoded weights tried lie between -MaxEncoded and MaxEncoded, in
\* steps of 0.5.
MaxEncoded == 26

EncodedWeights == ToFixed(-MaxEncoded)..ToFixed(MaxEncoded)

WeightInit ==
    /\ ZipIdle
    /\ StlIdle
    /\ HostIdle
    /\ TriIdle
    /\ ExIdle
    /\ BoneIdle
    /\ ResIdle
    /\ WeightIdle

\* decodeWeight(encodedWeight)
WeightDecode(encodedWeight) ==
    /\ weightCall' = Some([encodedWeight |-> encodedWeight,
                           result |-> decodeWeight(encodedWeight)])
    /\ UNCHANGED <<zipVars, stlVars, hostVars, triVars, exVars, boneVars, resVars>>

WeightNext == \E encodedWeight \in EncodedWeights : WeightDecode(encodedWeight)

SpecWeight == WeightInit /\ [][WeightNext]_vars

\* The call decoded the weight w (a whole number) to r (a whole number).
Decoded(w, r) ==
    /\ weightCall # None
    /\ weightCall[1].encodedWeight = ToFixed(w) => weightCall[1].result = ToFixed(r)

\* The result of a call lies in [0, 1]; 1, 0 and -1 decode to 1, 0 and 1.
WeightInUnitInterval ==
    weightCall # None =>
        /\ weightCall[1].result >= ToFixed(0)
        /\ weightCall[1].result <= ToFixed(1)
        /\ Decoded(1, 1)
        /\ Decoded(0, 0)
        /\ Decoded(-1, 1)

\* Two calls in a row whose arguments differ by a multiple of 2 return the
\* same weight.
WeightPeriodicStep ==
    (/\ weightCall # None
     /\ weightCall' # None
     /\ (weightCall'[1].encodedWeight - weightCall[1].encodedWeight) % ToFixed(2) = 0)
    => weightCall'[1].result = weightCall[1].result

\* C12: decodeWeight has period 2, also on negative weights; its result lies
\* in [0, 1]; decodeWeight(1) = 1, decodeWeight(0) = 0, decodeWeight(-1) = 1.
WeightPeriodic == [](WeightInUnitInterval) /\ [][WeightPeriodicStep]_vars

\* A negative weight other than -1 that decodes to 1, and so has the value
\* of the weight 1 an even number of steps above it.
WeightPeriodicWitness ==
    /\ weightCall # None
    /\ weightCall[1].encodedWeight < ToFixed(-1)
    /\ weightCall[1].result = ToFixed(1)

(***************************************************************************)
(* extractMeshGeometry in steps                                            *)
(***************************************************************************)
\* Where extractMeshGeometry goes after the loop over the bones, or when
\* the skeleton has no bones.
afterBones(mesh) ==
    IF mesh.skeleton[1].hasUpdate THEN "skeletonUpdate" ELSE "vertex"

\* A resolver that starts on the vertices right after the mesh's own update.
afterMeshUpdate_SkipBones(mesh) == "vertex"

\* Where extractMeshGeometry goes after mesh.updateMatrixWorld(true).
afterMeshUpdate(mesh) ==
    IF IsSome(mesh.skeleton)
    THEN (IF IsSome(mesh.skeleton[1].bones) /\ Len(mesh.skeleton[1].bones[1]) > 0
          THEN "bones"
          ELSE afterBones(mesh))
    ELSE "vertex"

\* mesh.updateMatrixWorld(true)
ResUpdateMesh ==
    /\ resPc = "updateMesh"
    /\ resMesh' = Some(updateMatrixWorld(resMesh[1]))
    /\ resPc' = afterMeshUpdate(resMesh[1])
    /\ UNCHANGED <<resBone, resI, resPositions, resPath, zipVars, stlVars, hostVars, triVars,
                   exVars, boneVars, weightVars>>

\* One pass of the loop over skeleton.bones: if (bone) bone.updateMatrixWorld(true).
ResUpdateBone ==
    /\ resPc = "bones"
    /\ resMesh' =
          IF IsSome(resMesh[1].skeleton[1].bones[1][resBone + 1])
          THEN Some([resMesh[1] EXCEPT
                       !.skeleton[1].bones[1][resBone + 1] = Some(updateBone(@[1]))])
          ELSE resMesh
    /\ resBone' = resBone + 1
    /\ resPc' = IF resBone' < Len(resMesh[1].skeleton[1].bones[1]) THEN "bones"
                ELSE afterBones(resMesh[1])
    /\ UNCHANGED <<resI, resPositions, resPath, zipVars, stlVars, hostVars, triVars, exVars,
                   boneVars, weightVars>>

\* mesh.skeleton.update()
ResSkeletonUpdate ==
    /\ resPc = "skeletonUpdate"
    /\ resMesh' = Some([resMesh[1] EXCEPT !.skeleton[1] = skeletonUpdate(@)])
    /\ resPc' = "vertex"
    /\ UNCHANGED <<resBone, resI, resPositions, resPath, zipVars, stlVars, hostVars, triVars,
                   exVars, boneVars, weightVars>>

\* One pass of the loop over the vertices.
ResVertex ==
    /\ resPc = "vertex"
    /\ resI < Len(resMesh[1].geometry[1].position[1])
    /\ resPath' = Append(resPath, IF isSkinnedMesh(resMesh[1]) THEN "skinned" ELSE "direct")
    /\ resPositions' = resPositions \o <<resolveVertex(resMesh[1], resI).x,
                                         resolveVertex(resMesh[1], resI).y,
                                         resolveVertex(resMesh[1], resI).z>>
    /\ resI' = resI + 1
    /\ UNCHANGED <<resMesh, resPc, resBone, zipVars, stlVars, hostVars, triVars, exVars,
                   boneVars, weightVars>>

\* return { positions, indices }
ResReturn ==
    /\ resPc = "vertex"
    /\ resI >= Len(resMesh[1].geometry[1].position[1])
    /\ resPc' = "done"
    /\ UNCHANGED <<resMesh, resBone, resI, resPositions, resPath, zipVars, stlVars, hostVars,
                   triVars, exVars, boneVars, weightVars>>


\* A skin attribute of two vertices bound with weight 1 to bone 0 by the
\* first pair, and one bound with weight 1 to bone 1 by the second pair.
SkinFirstBone == <<<<ToFixed(0), ToFixed(1), 0, 0>>, <<ToFixed(0), ToFixed(1), 0, 0>>>>

SkinSecondBone == <<<<0, 0, ToFixed(1), ToFixed(1)>>, <<0, 0, ToFixed(1), ToFixed(1)>>>>

\* The skin attributes skin0..skin3 of a geometry: none, skin0 alone, skin1
\* alone, skin3 alone, skin0 with skin2.
SkinLayouts ==
    { <<None, None, None, None>>,
      <<Some(SkinFirstBone), None, None, None>>,
      <<None, Some(SkinFirstBone), None, None>>,
      <<None, None, None, Some(SkinSecondBone)>>,
      <<Some(SkinFirstBone), None, Some(SkinSecondBone), None>> }

\* A bone whose cached world transform is left from an earlier pose, and one
\* whose world transform was never computed.
StaleBone ==
    [matrixWorld |-> Some(IdentityMatrix), getMatrixWorld |-> None,
     pose |-> TranslationMatrix(0, 8, 0)]

FreshBone ==
    [matrixWorld |-> None, getMatrixWorld |-> None, pose |-> TranslationMatrix(4, 0, 0)]

\* No skeleton; one stale bone; an empty entry and a bone, without update();
\* a skeleton without bones.
ResSkeletons ==
    { None,
      Some([bones |-> Some(<<Some(StaleBone)>>),
            boneInverses |-> Some(<<Some(IdentityMatrix)>>),
            hasUpdate |-> TRUE, boneMatrices |-> None]),
      Some([bones |-> Some(<<None, Some(FreshBone)>>),
            boneInverses |-> Some(<<Some(IdentityMatrix), Some(IdentityMatrix)>>),
            hasUpdate |-> FALSE, boneMatrices |-> None]),
      Some([bones |-> None, boneInverses |-> None,
            hasUpdate |-> TRUE, boneMatrices |-> None]) }

\* The meshes extractMeshGeometry is called on: two vertices, each of the
\* skin layouts and skeletons, flagged as skinned or not, with a cached world
\* transform that is current or stale.
ResMeshes ==
    { [PlainMesh(NameHand,
                 Some([Geometry("BufferGeometry", Some(<<<<2, 0, 0>>, <<0, 4, 2>>>>), None)
                         EXCEPT !.skin = skin]))
         EXCEPT !.isSkinnedMesh = flag, !.skeleton = skeleton, !.pose = pose] :
        skin \in SkinLayouts, skeleton \in ResSkeletons, flag \in BOOLEAN,
        pose \in {IdentityMatrix, TranslationMatrix(0, 0, 4)} }

ResInit ==
    /\ ZipIdle
    /\ StlIdle
    /\ HostIdle
    /\ TriIdle
    /\ ExIdle
    /\ BoneIdle
    /\ WeightIdle
    /\ resMesh \in { Some(mesh) : mesh \in ResMeshes }
    /\ resPc = "updateMesh"
    /\ resBone = 0
    /\ resI = 0
    /\ resPositions = <<>>
    /\ resPath = <<>>

ResNext ==
    \/ ResUpdateMesh
    \/ ResUpdateBone
    \/ ResSkeletonUpdate
    \/ ResVertex
    \/ ResReturn

SpecResolve == ResInit /\ [][ResNext]_vars

(***************************************************************************)
(* Which path resolves a vertex                                            *)
(***************************************************************************)
\* The mesh is a skinned mesh with a skeleton and at least one of skin0,
\* skin1, skin2, skin3.
SkinnedWithAnySlot(mesh) ==
    /\ mesh.isSkinnedMesh
    /\ IsSome(mesh.skeleton)
    /\ \E k \in 1..4 : IsSome(mesh.geometry[1].skin[k])

\* C13: every vertex is resolved by the skinning path when the mesh is a
\* skinned mesh with a skeleton and at least one of its four skin attributes,
\* whichever it is, and by the direct world-transform path otherwise.
SkinnedIfAnySlot ==
    \A i \in 1..Len(resPath) :
        resPath[i] = "skinned" <=> SkinnedWithAnySlot(resMesh[1])

(***************************************************************************)
(* The forced updates come before the vertices                             *)
(***************************************************************************)
\* The cached world transform of the mesh and of every bone of its skeleton
\* is the one of its current pose.
TransformsCurrent(mesh) ==
    /\ mesh.matrixWorld = mesh.pose
    /\ (IsSome(mesh.skeleton) /\ IsSome(mesh.skeleton[1].bones)) =>
          \A b \in 1..Len(mesh.skeleton[1].bones[1]) :
              IsSome(mesh.skeleton[1].bones[1][b]) =>
                  mesh.skeleton[1].bones[1][b][1].matrixWorld
                      = Some(mesh.skeleton[1].bones[1][b][1].pose)

\* The vertex loop has been entered.
AtVertices == resPc \in {"vertex", "done"} \/ resPositions # <<>>

\* C14: when the first vertex is read the mesh's own world transform and
\* that of every bone have been force-updated, and no update follows a
\* resolved vertex.
UpdatesBeforeVertices ==
    /\ [](AtVertices => TransformsCurrent(resMesh[1]))
    /\ [][AtVertices => resMesh' = resMesh]_vars

\* A call that returned the vertices of a skinned mesh after updating its
\* bones and its skeleton.
UpdatesBeforeVerticesWitness ==
    /\ resPc = "done"
    /\ resPath = <<"skinned", "skinned">>
    /\ resMesh \notin { Some(mesh) : mesh \in ResMeshes }
    /\ IsSome(resMesh[1].skeleton[1].boneMatrices)

(***************************************************************************)
(* Remap and scale reach every vertex once                                 *)
(***************************************************************************)
\* The vertex objects of the list being assembled, in the order visited.
TriVertexIds == visitOrder(allTriangles)

\* No vertex object is referred to twice, within a triangle or by two
\* triangles.
NoSharedVertex ==
    \A i, j \in 1..Len(TriVertexIds) : i # j => TriVertexIds[i] # TriVertexIds[j]

\* The resolved position with index idx, as stored by extractMeshGeometry.
ResolvedAt(positions, idx) ==
    [x |-> positions[3 * idx + 1], y |-> positions[3 * idx + 2], z |-> positions[3 * idx + 3]]

\* A step that adds a triangle gives it three new vertex objects holding the
\* resolved coordinates of its group, neither remapped nor scaled.
AssembledAsResolved ==
    Len(allTriangles') = Len(allTriangles) + 1 =>
        LET t == allTriangles'[Len(allTriangles')]
            g == groupOf(triGeom, triI)
        IN  /\ {t.v1, t.v2, t.v3} \cap DOMAIN vertexHeap = {}
            /\ vertexHeap'[t.v1] = ResolvedAt(triGeom.positions, g[1])
            /\ vertexHeap'[t.v2] = ResolvedAt(triGeom.positions, g[2])
            /\ vertexHeap'[t.v3] = ResolvedAt(triGeom.positions, g[3])

\* The vertex after the transform, for the offset of its list.
Remapped(v, s, offset) == [x |-> v.x * s, y |-> (-v.z) * s, z |-> v.y * s + offset]

\* The step of transformTriangles turns every vertex (x, y, z) of the list
\* into (x*s, -z*s, y*s + offset), with one offset for the list, and leaves
\* every other vertex object as it is.
TransformedOnce ==
    LET ids == Range(TriVertexIds)
    IN  /\ \A id \in DOMAIN vertexHeap \ ids : vertexHeap'[id] = vertexHeap[id]
        /\ \/ ids = {}
           \/ \E first \in ids :
                 LET offset == vertexHeap'[first].z - vertexHeap[first].y * triScale'
                 IN  \A id \in ids :
                        vertexHeap'[id] = Remapped(vertexHeap[id], triScale', offset)

\* Any other step leaves the vertex objects there are as they are.
VerticesKept == \A id \in DOMAIN vertexHeap : vertexHeap'[id] = vertexHeap[id]

RemapOnceStep ==
    /\ AssembledAsResolved
    /\ IF triPc = "collected" /\ triPc' = "transformed" THEN TransformedOnce ELSE VerticesKept

\* C15: every vertex of an output triangle is assembled with its resolved
\* coordinates (x, y, z) and has the remap and the scale applied once, by
\* transformTriangles, to (x*s, -z*s, y*s + offset); triangles share no
\* vertex object, whatever the index buffer repeats.
RemapOnce == [](NoSharedVertex) /\ [][RemapOnceStep]_vars

\* A transformed list of two triangles from an index buffer that names one
\* source vertex three times in its first group, at scale -3.
RemapOnceWitness ==
    /\ triPc = "transformed"
    /\ triScale = -3
    /\ Len(allTriangles) = 2
    /\ triGeom.indices # None
    /\ triGeom.indices[1][1] = triGeom.indices[1][2]
    /\ triGeom.indices[1][2] = triGeom.indices[1][3]

(***************************************************************************)
(* Groups that reach outside the position buffer                           *)
(***************************************************************************)
\* The group that starts at i names a vertex that the resolved position
\* buffer does not have, or lacks an index.
GroupOutside(geom, i) ==
    \E k \in 1..3 :
        \/ groupOf(geom, i)[k] = Undefined
        \/ groupOf(geom, i)[k] < 0
        \/ groupOf(geom, i)[k] >= Len(geom.positions) \div 3

\* A call of addTriangle on such a group adds no triangle, counts one
\* discarded triangle, reports nothing and goes on to the next group.
OutsideGroupDiscarded ==
    (triPc = "group" /\ triI < groupEnd(triGeom) /\ GroupOutside(triGeom, triI)) =>
        /\ allTriangles' = allTriangles
        /\ skippedTriangles' = skippedTriangles + 1
        /\ triI' = triI + 3
        /\ triPc' = "group"
        /\ console' = console

\* The number of groups of three that the loops of collectTriangles take
\* from a mesh, the trailing incomplete one included.
GroupsIn(mesh) ==
    LET n == IF IsSome(mesh.geometry[1].index) THEN Len(mesh.geometry[1].index[1])
             ELSE Len(mesh.geometry[1].position[1])
    IN  (n + 2) \div 3

\* Once collectTriangles has returned, every group of every mesh was either
\* kept or counted, and nothing but the warning was reported.
AllGroupsProcessed ==
    triPc \in {"collected", "transformed"} =>
        /\ Len(allTriangles) + skippedTriangles
              = SumSeq([k \in 1..Len(triMeshes) |-> GroupsIn(MeshAt(CK.meshes, triMeshes[k]))])
        /\ \A k \in 1..Len(console) : console[k] = "warn: skipped triangles"

\* C16: a group that refers outside the resolved position buffer, the
\* trailing incomplete group included, raises no error and adds no triangle;
\* it is counted once as discarded, and the loops go on with the next group
\* and the next mesh.
OutsideGroupsSkipped == [](AllGroupsProcessed) /\ [][OutsideGroupDiscarded]_vars

\* Two meshes collected: the first with a group that names vertex 4 of four
\* and a trailing group of two indices, both discarded, the second with the
\* triangle that was kept.
OutsideGroupsSkippedWitness ==
    /\ triPc = "collected"
    /\ Len(triMeshes) = 2
    /\ MeshAt(CK.meshes, triMeshes[1]).geometry[1].index = Some(<<0, 1, 4, 2, 1>>)
    /\ skippedTriangles = 2
    /\ Len(allTriangles) = 1

====
